---- MODULE Spec2Model ----
(***************************************************************************)
(* A model of the le-livre USC parsing and diffing core:                   *)
(*   - the Format-B (XHTML) reconstructor, Pass 2                          *)
(*     (app/services/usc_parser.py),                                       *)
(*   - the Format-A (XML) extractor (parse_xml_section),                   *)
(*   - the section loader and its parse cache (app/services/data_loader.py)*)
(*   - the structural diff engine (app/services/diff_engine.py).           *)
(*                                                                         *)
(* Strings that the code inspects character by character (numbering        *)
(* tokens) are sequences of one-character strings; ids are TLA+ strings    *)
(* built by concatenation exactly as the f-strings of the code build them. *)
(***************************************************************************)
EXTENDS Integers, Sequences, FiniteSets, TLC

VARIABLES
    \* ---- Pass 2 of the Format-B reconstructor ----
    pc,               \* "fold" while the loop of Pass 2 runs, "done" after return
    arena,            \* every node dict created so far (a heap; index = reference)
    parent_stack,     \* level 5..9 -> reference into arena, 0 for None / missing
    root_subsections, \* list of references
    prev_css_level,   \* css level of the previous element, 0 at the start
    nelems,           \* number of elements folded so far
    lastnew,          \* references of the nodes created by the last element
    elements,         \* remaining input of Pass 2 (cross-format runs only)
    logical,          \* the logical provision tree being encoded (cross-format runs)
    xml_result,       \* the tree parse_xml_section returned (cross-format runs)
    \* ---- the section loader ----
    files,            \* the configured years whose source file exists
    source,           \* cache key -> what the extractor does on that (section, year)
    cache,            \* SectionDataLoader._cache: cache key -> parsed data
    parses,           \* cache key -> number of extractor invocations so far
    okparses,         \* cache key -> number of those that returned a tree
    nextobj,          \* identity of the next tree object an extractor creates
    ncalls,           \* number of loader calls made so far
    ret,              \* the last loader call and what it returned
    \* ---- concurrent get_section callers ----
    tpc,              \* thread -> position inside get_section
    tkey,             \* thread -> [section, year] of its call
    tdata,            \* thread -> local variable data / the value returned
    \* ---- the diff engine ----
    version1,         \* first argument of compare_versions
    version2,         \* second argument of compare_versions
    diffs,            \* the list compare_versions returned
    stats,            \* the dict get_diff_stats returned
    dpc,              \* "idle", "start", "compared" or "counted"
    \* ---- parse_xhtml_section: Pass 2 and the post-parse fixes ----
    blocks,           \* the candidates Pass 1 extracted from the section
    fix_section,      \* the section_num apply_post_parse_fixes is given
    built,            \* the dict built from the Pass 2 result (lines 564-575)
    fixed,            \* the dict apply_post_parse_fixes returned
    xpc,              \* "idle", "start", "built" or "fixed"
    \* ---- the hierarchical diff over the provision table ----
    db,               \* year -> (provision_id -> text_content): provision_embeddings
    hierarchy_result, \* the dict compare_hierarchical returned
    hpc,              \* "idle", "start" or "compared"
    \* ---- the level classifier called on its own ----
    arg_num,          \* clean_num
    arg_css,          \* css_level
    arg_stack,        \* parent_stack
    arg_prev,         \* prev_css_level, 0 for None
    level_out,        \* the level returned, 0 before the call
    cpc               \* "idle", "start" or "done"

foldVars == <<pc, arena, parent_stack, root_subsections, prev_css_level,
              nelems, lastnew>>
equivVars == <<elements, logical, xml_result>>
loaderVars == <<files, source, cache, parses, okparses, nextobj, ncalls, ret>>
threadVars == <<tpc, tkey, tdata>>
diffVars == <<version1, version2, diffs, stats, dpc>>
xhtmlVars == <<blocks, fix_section, built, fixed, xpc>>
hierVars == <<db, hierarchy_result, hpc>>
classVars == <<arg_num, arg_css, arg_stack, arg_prev, level_out, cpc>>

-----------------------------------------------------------------------------
(* Bounds *)

\* Number of candidate elements Pass 2 folds in one section.
MaxElems == 2

\* Number of calls made on one loader.
MaxCalls == 3

\* Number of candidate blocks of a section given to parse_xhtml_section.
MaxBlocks == 3

-----------------------------------------------------------------------------
(* Characters and the str predicates of Python the classifier uses *)

LowerSeq == <<"a","b","c","d","e","f","g","h","i","j","k","l","m",
              "n","o","p","q","r","s","t","u","v","w","x","y","z">>
UpperSeq == <<"A","B","C","D","E","F","G","H","I","J","K","L","M",
              "N","O","P","Q","R","S","T","U","V","W","X","Y","Z">>
LowerChars == {LowerSeq[k] : k \in DOMAIN LowerSeq}
UpperChars == {UpperSeq[k] : k \in DOMAIN UpperSeq}
DigitChars == {"0","1","2","3","4","5","6","7","8","9"}

ToLower(c) == IF c \in UpperChars
              THEN LowerSeq[CHOOSE k \in DOMAIN UpperSeq : UpperSeq[k] = c]
              ELSE c
ToUpper(c) == IF c \in LowerChars
              THEN UpperSeq[CHOOSE k \in DOMAIN LowerSeq : LowerSeq[k] = c]
              ELSE c

Chars(s) == {s[k] : k \in DOMAIN s}

\* str.isdigit(): non-empty and every character a digit
IsDigit(s) == s # <<>> /\ Chars(s) \subseteq DigitChars
\* str.isalpha(): non-empty and every character a letter
IsAlpha(s) == s # <<>> /\ Chars(s) \subseteq (LowerChars \cup UpperChars)
\* str.islower(): at least one cased character and no uppercase one
IsLower(s) == Chars(s) \cap LowerChars # {} /\ Chars(s) \cap UpperChars = {}
\* str.isupper(): at least one cased character and no lowercase one
IsUpper(s) == Chars(s) \cap UpperChars # {} /\ Chars(s) \cap LowerChars = {}

_is_lowercase_roman(s) ==
    IF s = <<>> THEN FALSE
    ELSE /\ \A k \in DOMAIN s : ToLower(s[k]) \in {"i","v","x","l","c","d","m"}
         /\ IsLower(s)

_is_uppercase_roman(s) ==
    IF s = <<>> THEN FALSE
    ELSE /\ \A k \in DOMAIN s : ToUpper(s[k]) \in {"I","V","X","L","C","D","M"}
         /\ IsUpper(s)

\* num.strip('()§. \xa0 '): leading and trailing characters of the set
StripChars == {"(", ")", "§", ".", " ", "\\xa0", "\\u202f"}

RECURSIVE LStrip(_)
LStrip(s) == IF s # <<>> /\ Head(s) \in StripChars THEN LStrip(Tail(s)) ELSE s

RECURSIVE RStrip(_)
RStrip(s) == IF s # <<>> /\ s[Len(s)] \in StripChars
             THEN RStrip(SubSeq(s, 1, Len(s) - 1)) ELSE s

Strip(s) == RStrip(LStrip(s))

\* the characters of a token as one string, for use inside an f-string
RECURSIVE Str(_)
Str(s) == IF s = <<>> THEN "" ELSE Head(s) \o Str(Tail(s))

-----------------------------------------------------------------------------
(* Levels, tags and child buckets *)

Levels == 5..9

LEVEL_TO_TAG == [l \in Levels |->
    CASE l = 5 -> "subsection"
      [] l = 6 -> "paragraph"
      [] l = 7 -> "subparagraph"
      [] l = 8 -> "clause"
      [] l = 9 -> "subclause"]

\* LEVEL_TO_TAG[level] + 's'
ChildKey(l) == LEVEL_TO_TAG[l] \o "s"

BucketNames == <<"subsections", "paragraphs", "subparagraphs", "clauses", "subclauses">>
Buckets == {BucketNames[k] : k \in DOMAIN BucketNames}

\* a node without any child list (a missing key and an empty list coincide:
\* the code creates a list only to append to it)
NoKids == [b \in Buckets |-> <<>>]

CLASS_TO_LEVEL(css_class) ==
    CASE css_class = "statutory-body" -> 5
      [] css_class = "statutory-body-1em" -> 6
      [] css_class = "statutory-body-2em" -> 7
      [] css_class = "statutory-body-3em" -> 8
      [] css_class = "statutory-body-4em" -> 9
      [] OTHER -> 5

CssClasses == {"statutory-body", "statutory-body-1em", "statutory-body-2em",
               "statutory-body-3em", "statutory-body-4em", "other"}

EmptyStack == [l \in Levels |-> 0]

-----------------------------------------------------------------------------
(* The numbering classifier *)

\* the classifier with the two single-letter rules tried before the rule on
\* the previous indentation hint
GetLevelLetterRulesBeforeIndentation(clean_num, css_level, stack, prev) ==
    IF IsDigit(clean_num) THEN 6
    ELSE IF Len(clean_num) = 1 /\ IsAlpha(clean_num) /\ IsLower(clean_num)
         THEN IF \E l \in 7..9 : stack[l] # 0 THEN 8 ELSE 5
    ELSE IF Len(clean_num) = 1 /\ IsAlpha(clean_num) /\ IsUpper(clean_num)
         THEN IF \E l \in 8..9 : stack[l] # 0 THEN 9 ELSE 7
    ELSE IF prev > 0 /\ css_level < prev THEN css_level
    ELSE IF Len(clean_num) > 1 /\ _is_lowercase_roman(clean_num) THEN 8
    ELSE IF Len(clean_num) > 1 /\ _is_uppercase_roman(clean_num) THEN 9
    ELSE css_level

_get_level_from_number_pattern(clean_num, css_level, stack, prev) ==
    IF IsDigit(clean_num) THEN 6
    ELSE IF prev > 0 /\ css_level < prev THEN css_level
    ELSE IF Len(clean_num) = 1 /\ IsAlpha(clean_num) /\ IsLower(clean_num)
         THEN IF \E l \in 7..9 : stack[l] # 0 THEN 8 ELSE 5
    ELSE IF Len(clean_num) = 1 /\ IsAlpha(clean_num) /\ IsUpper(clean_num)
         THEN IF \E l \in 8..9 : stack[l] # 0 THEN 9 ELSE 7
    ELSE IF Len(clean_num) > 1 /\ _is_lowercase_roman(clean_num) THEN 8
    ELSE IF Len(clean_num) > 1 /\ _is_uppercase_roman(clean_num) THEN 9
    ELSE css_level

\* _find_parent with the range started one level too deep
\* (range(target_level + 1, 4, -1)): a node may find its own level
FindParentFromOwnLevel(target_level, stack) ==
    LET pop == {l \in Levels : l <= target_level + 1 /\ stack[l] # 0}
    IN IF pop = {} THEN 0
       ELSE stack[CHOOSE l \in pop : \A m \in pop : m <= l]

\* the parent at target_level, or at the closest populated level above it
\* in the hierarchy; 0 for None
_find_parent(target_level, stack) ==
    LET pop == {l \in Levels : l <= target_level /\ stack[l] # 0}
    IN IF pop = {} THEN 0
       ELSE stack[CHOOSE l \in pop : \A m \in pop : m <= l]

-----------------------------------------------------------------------------
(* Candidate elements: the output of Pass 1 *)

\* '(' + token + ')' as _parse_provision_numbers appends it to numbers
Paren(tok) == <<"(">> \o tok \o <<")">>

\* one candidate: css class of the block, its numbers, the remaining text,
\* the links of the block and the repealed flag
Elem(css_class, toks, text, rep) ==
    [css_class   |-> css_class,
     css_level   |-> CLASS_TO_LEVEL(css_class),
     nums        |-> [k \in DOMAIN toks |-> Paren(toks[k])],
     text        |-> text,
     refs        |-> <<>>,
     is_root_css |-> (css_class = "statutory-body"),
     is_repealed |-> rep]

section_num == <<"9","2","2">>
\* section_base = f'/us/usc/t18/s{section_num}'; ids are sequences of characters
section_base == <<"/","u","s","/","u","s","c","/","t","1","8","/","s">> \o section_num

-----------------------------------------------------------------------------
(* Pass 2: node construction *)

Node(id, level, num, text, refs) ==
    [id |-> id, tag |-> LEVEL_TO_TAG[level], num |-> num, text |-> text,
     refs |-> refs, level |-> level,
     subsections |-> <<>>, paragraphs |-> <<>>, subparagraphs |-> <<>>,
     clauses |-> <<>>, subclauses |-> <<>>]

\* _handle_single_number without the is_root_css branch: the classifier
\* always sees the parent stack
HandleSingleNumberWithContext(elem, ar, stack, prev) ==
    LET num       == IF elem.nums # <<>> THEN elem.nums[1] ELSE <<>>
        clean_num == Strip(num)
        level     == _get_level_from_number_pattern(clean_num, elem.css_level, stack, prev)
        parent    == _find_parent(level - 1, stack)
        id        == IF parent # 0 /\ clean_num # <<>>
                     THEN ar[parent].id \o <<"/">> \o clean_num
                     ELSE IF clean_num # <<>>
                     THEN section_base \o <<"/">> \o clean_num
                     ELSE section_base
    IN Node(id, level, num, elem.text, elem.refs)

\* _handle_single_number with the classifier never given the parent stack
HandleSingleNumberIgnoringContext(elem, ar, stack, prev) ==
    LET num       == IF elem.nums # <<>> THEN elem.nums[1] ELSE <<>>
        clean_num == Strip(num)
        level     == _get_level_from_number_pattern(clean_num, elem.css_level, EmptyStack, prev)
        parent    == _find_parent(level - 1, stack)
        id        == IF parent # 0 /\ clean_num # <<>>
                     THEN ar[parent].id \o <<"/">> \o clean_num
                     ELSE IF clean_num # <<>>
                     THEN section_base \o <<"/">> \o clean_num
                     ELSE section_base
    IN Node(id, level, num, elem.text, elem.refs)

\* _handle_single_number: the node of a candidate with one number
_handle_single_number(elem, ar, stack, prev) ==
    LET num       == IF elem.nums # <<>> THEN elem.nums[1] ELSE <<>>
        clean_num == Strip(num)
        level     == IF elem.is_root_css
                     THEN _get_level_from_number_pattern(clean_num, elem.css_level, EmptyStack, prev)
                     ELSE _get_level_from_number_pattern(clean_num, elem.css_level, stack, prev)
        parent    == _find_parent(level - 1, stack)
        id        == IF parent # 0 /\ clean_num # <<>>
                     THEN ar[parent].id \o <<"/">> \o clean_num
                     ELSE IF clean_num # <<>>
                     THEN section_base \o <<"/">> \o clean_num
                     ELSE section_base
    IN Node(id, level, num, elem.text, elem.refs)

\* the level of the i-th number with a later number kept on the level of the
\* previous node instead of one below it
CombinedLevelSameAsPrevious(i, elem, clean_num, ar, prev) ==
    IF i = 1 \/ elem.is_repealed
    THEN _get_level_from_number_pattern(clean_num, elem.css_level, EmptyStack, prev)
    ELSE ar[Len(ar)].level

\* level of the i-th number of a combined candidate (lines 387-401)
CombinedLevel(i, elem, clean_num, ar, prev) ==
    IF i = 1 \/ elem.is_repealed
    THEN _get_level_from_number_pattern(clean_num, elem.css_level, EmptyStack, prev)
    ELSE IF ar[Len(ar)].level + 1 > 9 THEN 9 ELSE ar[Len(ar)].level + 1

\* id of the i-th number of a combined candidate (lines 410-420)
CombinedId(i, elem, clean_num, level, ar, stack) ==
    IF i = 1 \/ elem.is_repealed
    THEN LET parent == _find_parent(level - 1, stack)
         IN IF parent # 0
            THEN ar[parent].id \o <<"/">> \o clean_num
            ELSE section_base \o <<"/">> \o clean_num
    ELSE ar[Len(ar)].id \o <<"/">> \o clean_num

\* the loop of _handle_combined_number from its i-th number on; the nodes it
\* creates are the last entries of the arena, and nodes[-1] is the last one
RECURSIVE CombinedLoop(_, _, _, _, _)
CombinedLoop(i, elem, ar, stack, prev) ==
    IF i > Len(elem.nums) THEN [arena |-> ar, stack |-> stack]
    ELSE LET num       == elem.nums[i]
             clean_num == Strip(num)
             level     == CombinedLevel(i, elem, clean_num, ar, prev)
             text      == IF elem.is_repealed THEN elem.text
                          ELSE IF i = Len(elem.nums) THEN elem.text ELSE <<>>
             id        == CombinedId(i, elem, clean_num, level, ar, stack)
             node      == Node(id, level, num, text, elem.refs)
         IN CombinedLoop(i + 1, elem, Append(ar, node),
                         [stack EXCEPT ![level] = Len(ar) + 1], prev)

\* "Clear deeper levels": parent_stack[l] = None for l in level+1 .. 9
ClearDeeper(stack, level) == [l \in Levels |-> IF l > level THEN 0 ELSE stack[l]]

_handle_combined_number(elem, ar, stack, prev) ==
    LET r == CombinedLoop(1, elem, ar, stack, prev)
    IN [arena |-> r.arena,
        stack |-> ClearDeeper(r.stack, r.arena[Len(r.arena)].level)]

\* _attach_node looking for the parent from the node's own level up
AttachNodeParentFromOwnLevel(st, n) ==
    LET level == st.arena[n].level
    IN IF level = 5
       THEN [arena |-> st.arena,
             stack |-> ClearDeeper([st.stack EXCEPT ![5] = n], 5),
             roots |-> Append(st.roots, n)]
       ELSE LET parent    == _find_parent(level, st.stack)
                child_key == ChildKey(level)
            IN [arena |-> IF parent # 0
                          THEN [st.arena EXCEPT ![parent][child_key] = Append(@, n)]
                          ELSE st.arena,
                stack |-> ClearDeeper([st.stack EXCEPT ![level] = n], level),
                roots |-> st.roots]

\* _attach_node on the state st = [arena, stack, roots], for the node at n
_attach_node(st, n) ==
    LET level == st.arena[n].level
    IN IF level = 5
       THEN [arena |-> st.arena,
             stack |-> ClearDeeper([st.stack EXCEPT ![5] = n], 5),
             roots |-> Append(st.roots, n)]
       ELSE LET parent    == _find_parent(level - 1, st.stack)
                child_key == ChildKey(level)
            IN [arena |-> IF parent # 0
                          THEN [st.arena EXCEPT ![parent][child_key] = Append(@, n)]
                          ELSE st.arena,
                stack |-> ClearDeeper([st.stack EXCEPT ![level] = n], level),
                roots |-> st.roots]

\* for node in nodes: _attach_node(node, ...), for the nodes at from..to
RECURSIVE AttachAll(_, _, _)
AttachAll(st, from, to) ==
    IF from > to THEN st ELSE AttachAll(_attach_node(st, from), from + 1, to)

\* one iteration of the loop of _build_hierarchy_from_elements
FoldElem(elem, ar, stack, roots, prev) ==
    IF Len(elem.nums) > 1
    THEN LET r == _handle_combined_number(elem, ar, stack, prev)
         IN AttachAll([arena |-> r.arena, stack |-> r.stack, roots |-> roots],
                      Len(ar) + 1, Len(r.arena))
    ELSE LET node == _handle_single_number(elem, ar, stack, prev)
         IN _attach_node([arena |-> Append(ar, node), stack |-> stack, roots |-> roots],
                         Len(ar) + 1)

\* remove_level(node) for every node reachable from the root subsections
RECURSIVE ReachFrom(_, _)
ReachFrom(ar, n) ==
    {n} \cup UNION { UNION { ReachFrom(ar, ar[n][b][k]) : k \in DOMAIN ar[n][b] } : b \in Buckets }

Reachable(ar, roots) == UNION { ReachFrom(ar, roots[k]) : k \in DOMAIN roots }

DropLevel(node) == [f \in (DOMAIN node) \ {"level"} |-> node[f]]

-----------------------------------------------------------------------------
(* The candidates Pass 2 is run on *)

\* token lists of single candidates: a subsection letter, a roman-numeral
\* letter, a digit, an uppercase letter, an uppercase roman letter, and
\* multi-character roman numerals
SingleToks == { <<<<"a">>>>, <<<<"i">>>>, <<<<"1">>>>, <<<<"A">>>>,
                <<<<"I">>>>, <<<<"i","i">>>>, <<<<"I","I">>>> }

\* token lists of combined candidates: (a)(1), (i)(I), (A)(1), (v)(w),
\* (a)(1)(A)(i) and (A)(i)(I)(II), which runs past level 9
CombinedToks == { << <<"a">>, <<"1">> >>,
                  << <<"i">>, <<"I">> >>,
                  << <<"A">>, <<"1">> >>,
                  << <<"v">>, <<"w">> >>,
                  << <<"a">>, <<"1">>, <<"A">>, <<"i">> >>,
                  << <<"A">>, <<"i">>, <<"I">>, <<"I","I">> >> }

Texts == { <<"R","e","p","e","a","l","e","d",".">> }

Candidates ==
    { Elem(c, t, x, FALSE) : c \in CssClasses, t \in SingleToks, x \in Texts }
    \cup
    { Elem(c, t, x, r) : c \in CssClasses \ {"other"}, t \in CombinedToks,
                         x \in Texts, r \in BOOLEAN }

-----------------------------------------------------------------------------
(* Pass 2 as a state machine: _build_hierarchy_from_elements *)

FoldInit ==
    /\ pc = "fold"
    /\ arena = <<>>
    /\ parent_stack = EmptyStack
    /\ root_subsections = <<>>
    /\ prev_css_level = 0
    /\ nelems = 0
    /\ lastnew = {}

-----------------------------------------------------------------------------
(* The section loader: SectionDataLoader *)

\* YEARS_CONFIG, cut to one year of each format
YEARS_CONFIG == [y \in {2024, 2018} |->
    IF y = 2024 THEN [format |-> "xml",   file |-> "2024/usc18.xml"]
                ELSE [format |-> "xhtml", file |-> "2018/2018/2018usc18.htm"]]

ConfiguredYears == DOMAIN YEARS_CONFIG

\* the years get_section is called with: the configured ones and 1900
CallYears == ConfiguredYears \cup {1900}

\* the section numbers the loader is asked for
Sections == { <<"9","2","2">> }

\* str(year) inside the f-string of the cache key
YearStr(y) == CASE y = 2024 -> "2024" [] y = 2018 -> "2018" [] y = 1900 -> "1900"

\* cache_key = f"{section_num}:{year}"
CacheKey(sec, year) == Str(sec) \o ":" \o YearStr(year)

Keys == {CacheKey(sec, y) : sec \in Sections, y \in CallYears}
ParsableKeys == {CacheKey(sec, y) : sec \in Sections, y \in ConfiguredYears}

None == [kind |-> "None"]
Tree(obj) == [kind |-> "tree", obj |-> obj]

EmptyCache == [k \in {} |-> None]

\* what the extractor does on a (section, year): it returns a tree, returns
\* None (no such section) or raises
Outcomes == {"tree", "none", "raise"}

\* a store that writes the result whatever it is (the "if data" dropped)
CacheStoreUnconditional(c, key, data) ==
    [k \in (DOMAIN c) \cup {key} |-> IF k = key THEN data ELSE c[k]]

\* a store that rebinds the cache to a dict of the one new entry
CacheStoreReplacing(c, key, data) ==
    IF data.kind = "tree" THEN [k \in {key} |-> data] ELSE c

\* a store that was left out
CacheStoreSkipped(c, key, data) == c

\* "if data: self._cache[cache_key] = data" (lines 75-77)
CacheStore(c, key, data) ==
    IF data.kind = "tree"
    THEN [k \in (DOMAIN c) \cup {key} |-> IF k = key THEN data ELSE c[k]]
    ELSE c

\* the call of parse_xml_section / parse_xhtml_section inside the try block
\* on the loader state st: the extractor named by the format runs once
RunExtractor(st, key, format) ==
    LET out == st.source[key]
    IN [data     |-> IF out = "tree" THEN Tree(st.nextobj) ELSE None,
        raised   |-> out = "raise",
        by       |-> IF format = "xml" THEN "parse_xml_section" ELSE "parse_xhtml_section",
        parses   |-> [st.parses EXCEPT ![key] = @ + 1],
        okparses |-> IF out = "tree" THEN [st.okparses EXCEPT ![key] = @ + 1]
                     ELSE st.okparses,
        nextobj  |-> IF out = "tree" THEN st.nextobj + 1 ELSE st.nextobj]

\* get_section(section_num, year) on the loader state
\* st = [files, source, cache, parses, okparses, nextobj]; the result holds
\* the new state, the value returned and whether an exception escaped
get_section(st, sec, year) ==
    LET cache_key == CacheKey(sec, year)
    IN IF cache_key \in DOMAIN st.cache
       THEN [st |-> st, value |-> st.cache[cache_key], escaped |-> FALSE]
       ELSE IF year \notin DOMAIN YEARS_CONFIG
       THEN [st |-> st, value |-> None, escaped |-> FALSE]
       ELSE IF year \notin st.files
       THEN [st |-> st, value |-> None, escaped |-> FALSE]
       ELSE LET r == RunExtractor(st, cache_key, YEARS_CONFIG[year].format)
                after == [st EXCEPT !.parses = r.parses, !.okparses = r.okparses,
                                    !.nextobj = r.nextobj]
            IN IF r.raised
               THEN [st |-> after, value |-> None, escaped |-> FALSE]
               ELSE [st |-> [after EXCEPT !.cache = CacheStore(st.cache, cache_key, r.data)],
                     value |-> r.data, escaped |-> FALSE]

\* YEARS_CONFIG.keys() in the order of the dict literal
YearOrder == <<2024, 2018>>

\* the loop of get_section_versions from the i-th configured year on
RECURSIVE VersionsLoop(_, _, _, _)
VersionsLoop(st, sec, i, versions) ==
    IF i > Len(YearOrder) THEN [st |-> st, value |-> versions]
    ELSE LET r == get_section(st, sec, YearOrder[i])
         IN VersionsLoop(r.st, sec, i + 1,
                IF r.value.kind = "tree"
                THEN [y \in (DOMAIN versions) \cup {YearOrder[i]} |->
                         IF y = YearOrder[i] THEN r.value ELSE versions[y]]
                ELSE versions)

get_section_versions(st, sec) == VersionsLoop(st, sec, 1, [y \in {} |-> None])

\* sorted(self.YEARS_CONFIG.keys(), reverse=True)
get_available_years == <<2024, 2018>>

LoaderState == [files |-> files, source |-> source, cache |-> cache,
                parses |-> parses, okparses |-> okparses, nextobj |-> nextobj]

SetLoaderState(st) ==
    /\ cache' = st.cache
    /\ parses' = st.parses
    /\ okparses' = st.okparses
    /\ nextobj' = st.nextobj
    /\ UNCHANGED <<files, source>>

\* a loader just constructed, over some state of the source files
LoaderInit ==
    /\ files \in SUBSET ConfiguredYears
    /\ source \in [ParsableKeys -> Outcomes]
    /\ cache = EmptyCache
    /\ parses = [k \in ParsableKeys |-> 0]
    /\ okparses = [k \in ParsableKeys |-> 0]
    /\ nextobj = 1
    /\ ncalls = 0
    /\ ret = [op |-> "__init__"]

\* the loader's variables in the runs that have no loader
LoaderIdle ==
    /\ files = {}
    /\ source = [k \in {} |-> "none"]
    /\ cache = EmptyCache
    /\ parses = [k \in {} |-> 0]
    /\ okparses = [k \in {} |-> 0]
    /\ nextobj = 1
    /\ ncalls = 0
    /\ ret = [op |-> "__init__"]

GetSection(sec, year) ==
    /\ ncalls < MaxCalls
    /\ LET r == get_section(LoaderState, sec, year)
       IN /\ SetLoaderState(r.st)
          /\ ret' = [op |-> "get_section", key |-> CacheKey(sec, year),
                     value |-> r.value, escaped |-> r.escaped]
    /\ ncalls' = ncalls + 1

GetSectionVersions(sec) ==
    /\ ncalls < MaxCalls
    /\ LET r == get_section_versions(LoaderState, sec)
       IN /\ SetLoaderState(r.st)
          /\ ret' = [op |-> "get_section_versions", value |-> r.value]
    /\ ncalls' = ncalls + 1

GetAvailableYears ==
    /\ ncalls < MaxCalls
    /\ ret' = [op |-> "get_available_years", value |-> get_available_years]
    /\ ncalls' = ncalls + 1
    /\ UNCHANGED <<files, source, cache, parses, okparses, nextobj>>

\* clear_cache(): self._cache.clear()
ClearCache ==
    /\ ncalls < MaxCalls
    /\ cache' = EmptyCache
    /\ ret' = [op |-> "clear_cache"]
    /\ ncalls' = ncalls + 1
    /\ UNCHANGED <<files, source, parses, okparses, nextobj>>

ThreadsIdle ==
    /\ tpc = <<>>
    /\ tkey = <<>>
    /\ tdata = <<>>

\* the diff engine's variables in the runs that compare nothing
DiffIdle ==
    /\ version1 = [id |-> <<>>]
    /\ version2 = [id |-> <<>>]
    /\ diffs = <<>>
    /\ stats = [total |-> 0]
    /\ dpc = "idle"

\* the variables of parse_xhtml_section in the runs that do not call it
XhtmlIdle ==
    /\ blocks = <<>>
    /\ fix_section = <<>>
    /\ built = [id |-> <<>>]
    /\ fixed = [id |-> <<>>]
    /\ xpc = "idle"

\* the provision table and the hierarchical diff in the runs without it
HierIdle ==
    /\ db = <<>>
    /\ hierarchy_result = [provision_id |-> <<>>]
    /\ hpc = "idle"

\* the classifier's arguments in the runs that do not call it on its own
ClassIdle ==
    /\ arg_num = <<>>
    /\ arg_css = 0
    /\ arg_stack = EmptyStack
    /\ arg_prev = 0
    /\ level_out = 0
    /\ cpc = "idle"

\* the Pass 2 variables in the runs that parse nothing step by step
FoldIdle ==
    /\ FoldInit
    /\ elements = <<>>
    /\ logical = [tree |-> {}, combined |-> {}]
    /\ xml_result = [status |-> "unused"]

-----------------------------------------------------------------------------
(* Pass 2, continued *)

\* one iteration of the for loop, on element elem
Fold(elem) ==
    /\ pc = "fold"
    /\ LET st == FoldElem(elem, arena, parent_stack, root_subsections, prev_css_level)
       IN /\ arena' = st.arena
          /\ parent_stack' = st.stack
          /\ root_subsections' = st.roots
          /\ lastnew' = (Len(arena) + 1)..Len(st.arena)
    /\ prev_css_level' = elem.css_level
    /\ nelems' = nelems + 1

\* the end of the loop: remove_level on the tree, return root_subsections
Finish ==
    /\ pc = "fold"
    /\ pc' = "done"
    /\ arena' = [n \in DOMAIN arena |->
                    IF n \in Reachable(arena, root_subsections)
                    THEN DropLevel(arena[n]) ELSE arena[n]]
    /\ UNCHANGED <<parent_stack, root_subsections, prev_css_level, nelems, lastnew>>

\* Pass 2 on an arbitrary sequence of at most MaxElems candidates
FoldAny ==
    /\ nelems < MaxElems
    /\ \E elem \in Candidates : Fold(elem)
    /\ UNCHANGED pc
    /\ UNCHANGED <<equivVars, loaderVars, threadVars, diffVars, xhtmlVars, hierVars, classVars>>

FinishAny == Finish /\ UNCHANGED <<equivVars, loaderVars, threadVars, diffVars, xhtmlVars, hierVars, classVars>>

Init ==
    /\ FoldInit
    /\ elements = <<>>
    /\ logical = [tree |-> {}, combined |-> {}]
    /\ xml_result = [status |-> "unused"]
    /\ LoaderIdle
    /\ ThreadsIdle
    /\ DiffIdle
    /\ XhtmlIdle
    /\ HierIdle
    /\ ClassIdle

Next == FoldAny \/ FinishAny

vars == <<pc, arena, parent_stack, root_subsections, prev_css_level,
          nelems, lastnew, elements, logical, xml_result,
          files, source, cache, parses, okparses, nextobj, ncalls, ret,
          tpc, tkey, tdata, version1, version2, diffs, stats, dpc,
          blocks, fix_section, built, fixed, xpc,
          db, hierarchy_result, hpc,
          arg_num, arg_css, arg_stack, arg_prev, level_out, cpc>>

Spec == Init /\ [][Next]_vars

-----------------------------------------------------------------------------
(* The tree Pass 2 returns, read off the arena *)

\* the level a tag stands for (the 'level' key is gone from a returned node)
TagLevel(tag) == CHOOSE l \in Levels : LEVEL_TO_TAG[l] = tag

\* the nodes of the returned tree
TreeNodes == Reachable(arena, root_subsections)

\* the (parent, bucket, child) triples of the returned tree
TreeEdges ==
    { e \in TreeNodes \X Buckets \X TreeNodes :
        \E k \in DOMAIN arena[e[1]][e[2]] : arena[e[1]][e[2]][k] = e[3] }

\* unadorned(num)
Unadorned(num) == Strip(num)

\* two entries of the tree (or two created nodes) share an id
TreeHasDuplicateId ==
    \E m, n \in TreeNodes : m # n /\ arena[m].id = arena[n].id

ParseComputedDuplicateId ==
    \E m, n \in DOMAIN arena : m # n /\ arena[m].id = arena[n].id

(* C1: in the returned tree every non-root node's id is the id of the node
   in whose child bucket it is stored (the section base for the root
   subsections), then "/", then the node's numbering token without its
   parentheses. *)
C1_IdExtendsParentId ==
    pc = "done" =>
        /\ \A k \in DOMAIN root_subsections :
              arena[root_subsections[k]].id =
                  section_base \o <<"/">> \o Unadorned(arena[root_subsections[k]].num)
        /\ \A e \in TreeEdges :
              arena[e[3]].id = arena[e[1]].id \o <<"/">> \o Unadorned(arena[e[3]].num)

C3_UniqueIdsAndSubsectionNums ==
    pc = "done" =>
        /\ ~TreeHasDuplicateId
        /\ \A j, k \in DOMAIN root_subsections :
              j # k => arena[root_subsections[j]].num # arena[root_subsections[k]].num

(* C9: when Pass 2 computes for a node an id that a node created earlier in
   the same parse already has, the parse does not return a tree. *)
C9_DuplicateIdReturnsNoTree ==
    ParseComputedDuplicateId => pc # "done"

-----------------------------------------------------------------------------
(* Format A: the USLM XML source and parse_xml_section *)

\* the identifier attribute USLM gives the provision at a path of tokens
RECURSIVE PathId(_)
PathId(path) ==
    IF path = <<>> THEN section_base
    ELSE PathId(SubSeq(path, 1, Len(path) - 1)) \o <<"/">> \o path[Len(path)]

\* parse_element: the dict of one USLM element; a child list is a key of
\* the result only when the element has direct children of that tag
RECURSIVE parse_element(_)
parse_element(elem) ==
    LET direct(b) == SelectSeq(elem.children, LAMBDA c : c.tag \o "s" = b)
        parsed(b) == [k \in DOMAIN direct(b) |-> parse_element(direct(b)[k])]
    IN [id   |-> elem.identifier,
        tag  |-> elem.tag,
        num  |-> elem.num,
        text |-> IF elem.chapeau # <<>> THEN elem.chapeau ELSE elem.content,
        refs |-> <<>>,
        subsections   |-> parsed("subsections"),
        paragraphs    |-> parsed("paragraphs"),
        subparagraphs |-> parsed("subparagraphs"),
        clauses       |-> parsed("clauses"),
        subclauses    |-> parsed("subclauses")]

\* parse_xml_section on a document (a set of section elements): the section
\* whose identifier is /us/usc/t18/s{section_num}, or None
parse_xml_section(doc, secnum) ==
    LET section == {e \in doc : e.identifier = <<"/","u","s","/","u","s","c","/","t","1","8","/","s">> \o secnum}
    IN IF section = {} THEN [status |-> "None"]
       ELSE [status |-> "tree", tree |-> parse_element(CHOOSE e \in section : TRUE)]

\* the ids of the provisions of a parsed tree (the root left out)
RECURSIVE DictIds(_)
DictIds(d) ==
    UNION { UNION { {d[b][k].id} \cup DictIds(d[b][k]) : k \in DOMAIN d[b] }
            : b \in Buckets }

-----------------------------------------------------------------------------
(* Logical provision trees and their two encodings *)

\* the provisions a logical tree may hold, in document order:
\* (a), (a)(1), (a)(1)(A), (a)(1)(A)(i), (a)(1)(A)(i)(I), (a)(1)(A)(ii),
\* (a)(2), (i)
PathOrder == << << <<"a">> >>,
                << <<"a">>, <<"1">> >>,
                << <<"a">>, <<"1">>, <<"A">> >>,
                << <<"a">>, <<"1">>, <<"A">>, <<"i">> >>,
                << <<"a">>, <<"1">>, <<"A">>, <<"i">>, <<"I">> >>,
                << <<"a">>, <<"1">>, <<"A">>, <<"i","i">> >>,
                << <<"a">>, <<"2">> >>,
                << <<"i">> >> >>

Paths == {PathOrder[k] : k \in DOMAIN PathOrder}

ParentPath(p) == SubSeq(p, 1, Len(p) - 1)

\* a logical tree: a set of provisions holding the parent of each member
LogicalTrees == {S \in SUBSET Paths : \A p \in S : Len(p) > 1 => ParentPath(p) \in S}

DocOrder(S) == SelectSeq(PathOrder, LAMBDA p : p \in S)

\* the provisions a block may share with the provision that follows it:
\* those directly followed, in document order, by a child of theirs
Combinable(S) ==
    LET doc == DocOrder(S)
    IN {doc[k] : k \in {j \in 1..(Len(doc) - 1) : ParentPath(doc[j + 1]) = doc[j]}}

\* Format A: the element of provision p with its descendants
RECURSIVE XmlElem(_, _)
XmlElem(S, p) ==
    LET kids == SelectSeq(PathOrder, LAMBDA q : q \in S /\ Len(q) = Len(p) + 1
                                                 /\ ParentPath(q) = p)
    IN [identifier |-> PathId(p),
        tag        |-> IF p = <<>> THEN "section" ELSE LEVEL_TO_TAG[4 + Len(p)],
        num        |-> IF p = <<>> THEN <<"§">> ELSE Paren(p[Len(p)]),
        chapeau    |-> IF kids # <<>> /\ p # <<>> THEN <<"t">> ELSE <<>>,
        content    |-> IF kids = <<>> THEN <<"t">> ELSE <<>>,
        children   |-> [k \in DOMAIN kids |-> XmlElem(S, kids[k])]]

XmlDoc(S) == { XmlElem(S, <<>>) }

LevelClass(l) == CHOOSE c \in CssClasses \ {"other"} : CLASS_TO_LEVEL(c) = l

\* Format B: the blocks of the provisions doc[k..], one per provision, or
\* one per run of provisions of comb each followed by its first child;
\* the class of a block is the indentation of the provision opening it
RECURSIVE XhtmlBlocks(_, _, _)
XhtmlBlocks(doc, comb, k) ==
    IF k > Len(doc) THEN <<>>
    ELSE LET last == CHOOSE j \in k..Len(doc) :
                        /\ \A m \in k..(j - 1) : doc[m] \in comb
                        /\ j = Len(doc) \/ doc[j] \notin comb
             toks == [m \in 1..(last - k + 1) |-> doc[k + m - 1][Len(doc[k + m - 1])]]
         IN <<Elem(LevelClass(4 + Len(doc[k])), toks, <<"t">>, FALSE)>>
            \o XhtmlBlocks(doc, comb, last + 1)

-----------------------------------------------------------------------------
(* Both extractors on one logical tree *)

EquivInit ==
    /\ FoldInit
    /\ \E S \in LogicalTrees : \E comb \in SUBSET Combinable(S) :
          /\ logical = [tree |-> S, combined |-> comb]
          /\ elements = XhtmlBlocks(DocOrder(S), comb, 1)
    /\ xml_result = [status |-> "pending"]
    /\ LoaderIdle
    /\ ThreadsIdle
    /\ DiffIdle
    /\ XhtmlIdle
    /\ HierIdle
    /\ ClassIdle

\* parse_xml_section on the Format-A encoding
ParseXml ==
    /\ xml_result.status = "pending"
    /\ xml_result' = parse_xml_section(XmlDoc(logical.tree), section_num)
    /\ UNCHANGED <<elements, logical>>
    /\ UNCHANGED <<foldVars, loaderVars, threadVars, diffVars, xhtmlVars, hierVars, classVars>>

\* Pass 2 on the next block of the Format-B encoding
FoldNextBlock ==
    /\ elements # <<>>
    /\ Fold(Head(elements))
    /\ elements' = Tail(elements)
    /\ UNCHANGED <<pc, logical, xml_result>>
    /\ UNCHANGED <<loaderVars, threadVars, diffVars, xhtmlVars, hierVars, classVars>>

FinishBlocks ==
    /\ elements = <<>>
    /\ Finish
    /\ UNCHANGED <<equivVars, loaderVars, threadVars, diffVars, xhtmlVars, hierVars, classVars>>

EquivNext == ParseXml \/ FoldNextBlock \/ FinishBlocks

SpecEquiv == EquivInit /\ [][EquivNext]_vars

\* the ids of the provisions of the tree Pass 2 returned
XhtmlIds == {arena[n].id : n \in TreeNodes}

(* C4: encoding one logical tree as Format A and as Format B and running
   both extractors yields trees with equal sets of node ids. *)
C4_SameIdsFromBothFormats ==
    (pc = "done" /\ xml_result.status = "tree") => DictIds(xml_result.tree) = XhtmlIds

-----------------------------------------------------------------------------
(* The loader under sequences of calls *)

LoaderOnlyInit ==
    LoaderInit /\ FoldIdle /\ ThreadsIdle /\ DiffIdle /\ XhtmlIdle /\ HierIdle /\ ClassIdle

NoLoaderFrame == UNCHANGED <<foldVars, equivVars, threadVars, diffVars, xhtmlVars, hierVars, classVars>>

CallGetSection ==
    /\ \E sec \in Sections, y \in CallYears : GetSection(sec, y)
    /\ NoLoaderFrame

CallGetSectionVersions ==
    /\ \E sec \in Sections : GetSectionVersions(sec)
    /\ NoLoaderFrame

CallGetAvailableYears == GetAvailableYears /\ NoLoaderFrame

CallClearCache == ClearCache /\ NoLoaderFrame

\* get_section and get_section_versions only
GetsNext == CallGetSection \/ CallGetSectionVersions

SpecGets == LoaderOnlyInit /\ [][GetsNext]_vars

\* get_section, get_section_versions, get_available_years and clear_cache
LoaderNext ==
    \/ CallGetSection
    \/ CallGetSectionVersions
    \/ CallGetAvailableYears
    \/ CallClearCache

SpecLoader == LoaderOnlyInit /\ [][LoaderNext]_vars

\* C5 (as stated): for any sequence of get_section and get_section_versions
\* calls the extractor is invoked at most once for each key, whether the
\* parse succeeded, found no such section, or raised.
C5_ExtractorAtMostOncePerKey ==
    \A k \in DOMAIN parses : parses[k] <= 1

\* C5 (amended): for any sequence of get_section and get_section_versions
\* calls the extractor is invoked at most once for each key whose parse
\* succeeds: the tree is cached at that parse, only trees that a parse
\* returned are cached, and a get_section that returns a tree returns the
\* object the cache holds for that key.
C5_ExtractorSucceedsAtMostOncePerKey ==
    /\ \A k \in DOMAIN okparses :
          /\ okparses[k] <= 1
          /\ okparses[k] = 1 => (k \in DOMAIN cache /\ parses[k] = 1)
    /\ \A k \in DOMAIN cache : k \in DOMAIN okparses /\ okparses[k] = 1
    /\ (ret.op = "get_section" /\ ret.value.kind = "tree") =>
          (ret.key \in DOMAIN cache /\ cache[ret.key] = ret.value)

\* a key was asked for at least twice with a successful parse, and the
\* extractor ran once
C5_Witness ==
    /\ ncalls >= 2
    /\ ret.op = "get_section"
    /\ ret.value.kind = "tree"
    /\ parses[ret.key] = 1
    /\ nextobj = 2
    /\ \A k \in DOMAIN parses : k # ret.key => parses[k] = 0

\* C7 (as stated): once an entry is cached it stays in the cache mapped to
\* the same tree in every later state; no operation removes or replaces it.
C7_CachedEntryStaysForever ==
    [][\A k \in DOMAIN cache : k \in DOMAIN cache' /\ cache'[k] = cache[k]]_vars

\* C7 (amended): a cached entry stays in the cache mapped to the same tree
\* across every get_section, get_section_versions and get_available_years
\* call; clear_cache is the one operation that removes entries, and it
\* removes them all.
C7_CachedEntryStaysUntilClearCache ==
    [][/\ ret'.op # "clear_cache" =>
             \A k \in DOMAIN cache : k \in DOMAIN cache' /\ cache'[k] = cache[k]
       /\ ret'.op = "clear_cache" => cache' = EmptyCache]_vars

\* two entries are cached: the one cached first survived the call that
\* cached the second
C7_Witness ==
    /\ Cardinality(DOMAIN cache) = 2
    /\ ret.op = "get_section"
    /\ ret.key \in DOMAIN cache

\* the (section, year) cannot be loaded: the year is not configured, the
\* file is missing, the section is not in the file or the extractor raises
Unloadable(key) ==
    \/ key \notin ParsableKeys
    \/ \E sec \in Sections, y \in ConfiguredYears :
          /\ key = CacheKey(sec, y)
          /\ (y \notin files \/ source[key] \in {"none", "raise"})

\* C8: a get_section call for an unconfigured year, a missing file, a
\* section not in the file or a parse that raises returns None, lets no
\* exception escape and leaves the cache as it was.
C8_FailedGetSectionReturnsNoneCacheUnchanged ==
    [][(ret'.op = "get_section" /\ Unloadable(ret'.key)) =>
          /\ ret'.value = None
          /\ ~ret'.escaped
          /\ cache' = cache]_vars

\* a failed get_section was made on a loader whose cache holds an entry
C8_Witness ==
    /\ ret.op = "get_section"
    /\ Unloadable(ret.key)
    /\ ret.key \in DOMAIN source
    /\ source[ret.key] = "raise"
    /\ ret.key \notin DOMAIN cache
    /\ cache # EmptyCache
    /\ parses[ret.key] >= 1

-----------------------------------------------------------------------------
(* get_section called from two threads on one loader *)

Threads == {1, 2}

\* the call is made: the thread is at the top of get_section
TCall(t, sec, year) ==
    /\ tpc[t] = "idle"
    /\ tpc' = [tpc EXCEPT ![t] = "check"]
    /\ tkey' = [tkey EXCEPT ![t] = [sec |-> sec, year |-> year]]
    /\ UNCHANGED <<tdata, loaderVars>>

\* lines 50-66: the cache lookup, the YEARS_CONFIG lookup and the file test.
\* Nothing is locked: a miss sends the thread on to the parse
TCheck(t) ==
    /\ tpc[t] = "check"
    /\ LET cache_key == CacheKey(tkey[t].sec, tkey[t].year)
       IN IF cache_key \in DOMAIN cache
          THEN /\ tdata' = [tdata EXCEPT ![t] = cache[cache_key]]
               /\ tpc' = [tpc EXCEPT ![t] = "done"]
          ELSE IF tkey[t].year \notin DOMAIN YEARS_CONFIG \/ tkey[t].year \notin files
          THEN /\ tdata' = [tdata EXCEPT ![t] = None]
               /\ tpc' = [tpc EXCEPT ![t] = "done"]
          ELSE /\ tpc' = [tpc EXCEPT ![t] = "parse"]
               /\ UNCHANGED tdata
    /\ UNCHANGED <<tkey, loaderVars>>

\* lines 68-73 and 81-83: the extractor runs; an exception ends the call
TParse(t) ==
    /\ tpc[t] = "parse"
    /\ LET cache_key == CacheKey(tkey[t].sec, tkey[t].year)
           r == RunExtractor(LoaderState, cache_key, YEARS_CONFIG[tkey[t].year].format)
       IN /\ parses' = r.parses
          /\ okparses' = r.okparses
          /\ nextobj' = r.nextobj
          /\ tdata' = [tdata EXCEPT ![t] = r.data]
          /\ tpc' = [tpc EXCEPT ![t] = IF r.raised THEN "done" ELSE "store"]
    /\ UNCHANGED <<tkey, files, source, cache, ncalls, ret>>

\* lines 75-79: the result is stored and returned
TStore(t) ==
    /\ tpc[t] = "store"
    /\ cache' = CacheStore(cache, CacheKey(tkey[t].sec, tkey[t].year), tdata[t])
    /\ tpc' = [tpc EXCEPT ![t] = "done"]
    /\ UNCHANGED <<tkey, tdata, files, source, parses, okparses, nextobj, ncalls, ret>>

ConcInit ==
    /\ LoaderInit
    /\ FoldIdle
    /\ tpc = [t \in Threads |-> "idle"]
    /\ tkey = [t \in Threads |-> [sec |-> <<>>, year |-> 0]]
    /\ tdata = [t \in Threads |-> None]
    /\ DiffIdle
    /\ XhtmlIdle
    /\ HierIdle
    /\ ClassIdle

NoThreadFrame == UNCHANGED <<foldVars, equivVars, diffVars, xhtmlVars, hierVars, classVars>>

ThreadCalls ==
    /\ \E t \in Threads, sec \in Sections, y \in CallYears : TCall(t, sec, y)
    /\ NoThreadFrame

ThreadChecks == (\E t \in Threads : TCheck(t)) /\ NoThreadFrame

ThreadParses == (\E t \in Threads : TParse(t)) /\ NoThreadFrame

ThreadStores == (\E t \in Threads : TStore(t)) /\ NoThreadFrame

ConcNext ==
    \/ ThreadCalls
    \/ ThreadChecks
    \/ ThreadParses
    \/ ThreadStores

SpecConc == ConcInit /\ [][ConcNext]_vars

\* C6: when two get_section calls for the same uncached key run
\* concurrently the extractor is invoked at most once for that key and both
\* callers get the same tree.
C6_ConcurrentCallsParseOnceSameTree ==
    \A t1, t2 \in Threads :
        (t1 # t2 /\ tpc[t1] # "idle" /\ tpc[t2] # "idle" /\ tkey[t1] = tkey[t2]) =>
            /\ CacheKey(tkey[t1].sec, tkey[t1].year) \in DOMAIN parses =>
                  parses[CacheKey(tkey[t1].sec, tkey[t1].year)] <= 1
            /\ (tpc[t1] = "done" /\ tpc[t2] = "done") => tdata[t1] = tdata[t2]

-----------------------------------------------------------------------------
(* The diff engine: build_provision_tree, compare_versions, get_diff_stats.
   Strings are sequences of characters here: ids are sorted and texts are
   stripped character by character. *)

\* the characters the trees use, in ascending code point order
CharOrder == <<" ", "(", ")", ".", "/">> \o
             <<"0","1","2","3","4","5","6","7","8","9">> \o UpperSeq \o LowerSeq

Ord(c) == CHOOSE k \in DOMAIN CharOrder : CharOrder[k] = c

\* s < t for two Python strings
RECURSIVE StrLess(_, _)
StrLess(s, t) ==
    IF t = <<>> THEN FALSE
    ELSE IF s = <<>> THEN TRUE
    ELSE IF Head(s) = Head(t) THEN StrLess(Tail(s), Tail(t))
    ELSE Ord(Head(s)) < Ord(Head(t))

\* sorted(ids) for a set of strings
RECURSIVE Sorted(_)
Sorted(S) ==
    IF S = {} THEN <<>>
    ELSE LET m == CHOOSE x \in S : \A y \in S \ {x} : StrLess(x, y)
         IN <<m>> \o Sorted(S \ {m})

\* str.strip() without argument
Whitespace == {" ", "\t", "\n"}

RECURSIVE LStripWs(_)
LStripWs(s) == IF s # <<>> /\ Head(s) \in Whitespace THEN LStripWs(Tail(s)) ELSE s

RECURSIVE RStripWs(_)
RStripWs(s) == IF s # <<>> /\ s[Len(s)] \in Whitespace
               THEN RStripWs(SubSeq(s, 1, Len(s) - 1)) ELSE s

StripWs(s) == RStripWs(LStripWs(s))

\* the dict stored for a provision (lines 71-77)
Summary(node, provision_id) ==
    [id |-> provision_id, num |-> node.num, text |-> node.text,
     tag |-> node.tag, refs |-> node.refs]

\* the id of a node under parent_path (lines 43-64)
ProvisionId(node, parent_path, base) ==
    IF node.id # <<>> THEN node.id
    ELSE LET clean_num == Strip(StripWs(node.num))
         IN IF clean_num # <<>> /\ parent_path # <<>>
            THEN parent_path \o <<"/">> \o clean_num
            ELSE IF clean_num # <<>> THEN base \o <<"/">> \o clean_num
            ELSE IF parent_path # <<>> THEN parent_path ELSE base

\* all the children of a node in the order the loop of lines 81-85 visits
\* them: bucket by bucket
Children(node) ==
    node.subsections \o node.paragraphs \o node.subparagraphs \o
    node.clauses \o node.subclauses

\* traverse(node, parent_path) for each node of the list, on the dict tree
RECURSIVE TraverseAll(_, _, _, _)
TraverseAll(nodes, parent_path, base, tree) ==
    IF nodes = <<>> THEN tree
    ELSE LET node == Head(nodes)
             provision_id == ProvisionId(node, parent_path, base)
             stored == [k \in (DOMAIN tree) \cup {provision_id} |->
                          IF k = provision_id THEN Summary(node, provision_id)
                          ELSE tree[k]]
             below == IF provision_id = <<>> THEN tree
                      ELSE TraverseAll(Children(node), provision_id, base, stored)
         IN TraverseAll(Tail(nodes), parent_path, base, below)

build_provision_tree(data) ==
    TraverseAll(data.subsections, <<>>, data.id, [k \in {} |-> None])

\* the last character of a key of the stored dict, for k.endswith('s')
LastChar(k) ==
    CASE k = "id" -> "d" [] k = "num" -> "m" [] k = "text" -> "t"
      [] k = "tag" -> "g" [] k = "refs" -> "s"

\* set(k for k in node.keys() if k.endswith('s') and k != 'refs')
child_keys(node) == {k \in DOMAIN node : LastChar(k) = "s" /\ k # "refs"}

\* a structure test that fires whenever both texts are empty
StructureChangedWhenTextEmpty(node1, node2, text1, text2) ==
    text1 = <<>> /\ text2 = <<>>

\* lines 142-158
structure_changed(node1, node2, text1, text2) ==
    IF text1 = <<>> /\ text2 = <<>>
    THEN IF child_keys(node1) # child_keys(node2) THEN TRUE
         ELSE \E key \in child_keys(node1) : Len(node1[key]) # Len(node2[key])
    ELSE FALSE

\* the entry of one id with the two branches for a missing node exchanged
DiffEntryAddedDeletedSwapped(provision_id, tree1, tree2) ==
    IF provision_id \notin DOMAIN tree1
    THEN [type |-> "deleted", id |-> provision_id, old |-> tree2[provision_id], new |-> None]
    ELSE IF provision_id \notin DOMAIN tree2
    THEN [type |-> "added", id |-> provision_id, old |-> None, new |-> tree1[provision_id]]
    ELSE [type |-> IF StripWs(tree1[provision_id].text) # StripWs(tree2[provision_id].text)
                   THEN "modified" ELSE "unchanged",
          id |-> provision_id, old |-> tree1[provision_id], new |-> tree2[provision_id]]

\* the entry of one id with a node new in version 2 reported as modified
DiffEntryAddedAsModified(provision_id, tree1, tree2) ==
    IF provision_id \notin DOMAIN tree1
    THEN [type |-> "modified", id |-> provision_id, old |-> None, new |-> tree2[provision_id]]
    ELSE IF provision_id \notin DOMAIN tree2
    THEN [type |-> "deleted", id |-> provision_id, old |-> tree1[provision_id], new |-> None]
    ELSE [type |-> IF StripWs(tree1[provision_id].text) # StripWs(tree2[provision_id].text)
                   THEN "modified" ELSE "unchanged",
          id |-> provision_id, old |-> tree1[provision_id], new |-> tree2[provision_id]]

\* the entry appended for one id (lines 117-175)
DiffEntry(provision_id, tree1, tree2) ==
    IF provision_id \notin DOMAIN tree1
    THEN [type |-> "added", id |-> provision_id, old |-> None, new |-> tree2[provision_id]]
    ELSE IF provision_id \notin DOMAIN tree2
    THEN [type |-> "deleted", id |-> provision_id, old |-> tree1[provision_id], new |-> None]
    ELSE LET node1 == tree1[provision_id]
             node2 == tree2[provision_id]
             text1 == StripWs(node1.text)
             text2 == StripWs(node2.text)
             text_changed == text1 # text2
         IN [type |-> IF text_changed \/ structure_changed(node1, node2, text1, text2)
                      THEN "modified" ELSE "unchanged",
             id |-> provision_id, old |-> node1, new |-> node2]

compare_versions(v1, v2) ==
    LET tree1 == build_provision_tree(v1)
        tree2 == build_provision_tree(v2)
        all_ids == Sorted((DOMAIN tree1) \cup (DOMAIN tree2))
    IN [k \in DOMAIN all_ids |-> DiffEntry(all_ids[k], tree1, tree2)]

\* statistics whose total counts the changed entries only
GetDiffStatsTotalOfChanges(ds) ==
    LET Count(t) == Cardinality({k \in DOMAIN ds : ds[k].type = t})
    IN [added |-> Count("added"), deleted |-> Count("deleted"),
        modified |-> Count("modified"), unchanged |-> Count("unchanged"),
        total |-> Count("added") + Count("deleted") + Count("modified")]

get_diff_stats(ds) ==
    LET Count(t) == Cardinality({k \in DOMAIN ds : ds[k].type = t})
    IN [added |-> Count("added"), deleted |-> Count("deleted"),
        modified |-> Count("modified"), unchanged |-> Count("unchanged"),
        total |-> Len(ds)]

\* ---- the section trees the engine is given ----

SectionBaseChars == section_base

\* a provision dict as the parsers build it
Prov(id, num, tag, text, kids) ==
    [id |-> id, num |-> num, tag |-> tag, text |-> text, refs |-> <<>>,
     subsections |-> kids.subsections, paragraphs |-> kids.paragraphs,
     subparagraphs |-> kids.subparagraphs, clauses |-> kids.clauses,
     subclauses |-> kids.subclauses]

Leaf(id, num, tag, text) == Prov(id, num, tag, text, NoKids)

IdA == SectionBaseChars \o <<"/","a">>
IdB == SectionBaseChars \o <<"/","b">>

Para1 == Leaf(IdA \o <<"/","1">>, <<"(","1",")">>, "paragraph", <<"p">>)
Para2 == Leaf(IdA \o <<"/","2">>, <<"(","2",")">>, "paragraph", <<"q">>)
\* a paragraph the parser gave no id
Para1NoId == Leaf(<<>>, <<"(","1",")">>, "paragraph", <<"p">>)
SubparaA == Leaf(IdA \o <<"/","A">>, <<"(","A",")">>, "subparagraph", <<"r">>)
\* paragraph (1) renumbered (2): the text of Para1 under the id of Para2
Para1Renumbered == Leaf(IdA \o <<"/","2">>, <<"(","2",")">>, "paragraph", <<"p">>)

\* the children subsection (a) may have
KidShapes ==
    { NoKids,
      [NoKids EXCEPT !.paragraphs = <<Para1>>],
      [NoKids EXCEPT !.paragraphs = <<Para1, Para2>>],
      [NoKids EXCEPT !.paragraphs = <<Para1NoId>>],
      [NoKids EXCEPT !.paragraphs = <<Para1Renumbered>>],
      [NoKids EXCEPT !.subparagraphs = <<SubparaA>>] }

\* the texts subsection (a) may have
SubTexts == { <<>>, <<" ">>, <<"x">>, <<"x"," ">>, <<"y">> }

SubA(text, kids) == Prov(IdA, <<"(","a",")">>, "subsection", text, kids)
SubB == Leaf(IdB, <<"(","b",")">>, "subsection", <<"z">>)

SectionDict(subs) ==
    [id |-> SectionBaseChars, tag |-> "section", num |-> section_num,
     text |-> <<>>, refs |-> <<>>, subsections |-> subs]

\* the for loop of _build_hierarchy_from_elements over a list of candidates,
\* from the loop state st = [arena, stack, roots, prev]
RECURSIVE FoldSeq(_, _)
FoldSeq(els, st) ==
    IF els = <<>> THEN st
    ELSE LET r == FoldElem(Head(els), st.arena, st.stack, st.roots, st.prev)
         IN FoldSeq(Tail(els), [arena |-> r.arena, stack |-> r.stack,
                                roots |-> r.roots, prev |-> Head(els).css_level])

\* the node at n as the nested dict the caller gets, 'level' removed
RECURSIVE NodeDict(_, _)
NodeDict(ar, n) ==
    [f \in (DOMAIN ar[n]) \ {"level"} |->
        IF f \in Buckets THEN [k \in DOMAIN ar[n][f] |-> NodeDict(ar, ar[n][f][k])]
        ELSE ar[n][f]]

\* _build_hierarchy_from_elements(elements, section_base) as a function
_build_hierarchy_from_elements(els) ==
    LET st == FoldSeq(els, [arena |-> <<>>, stack |-> EmptyStack,
                            roots |-> <<>>, prev |-> 0])
    IN [k \in DOMAIN st.roots |-> NodeDict(st.arena, st.roots[k])]

\* candidate lists of Format-B sections: (a) followed by the repealed
\* block "[(II), (X) Repealed.", by the repealed block "[(A), (1) Repealed."
\* and by the combined block "(1)(A) Repealed."
ParsedSections ==
    LET cand(c, toks, r) == Elem(c, toks, <<"R","e","p","e","a","l","e","d",".">>, r)
        a == cand("statutory-body", << <<"a">> >>, FALSE)
    IN { <<a, cand("statutory-body-1em", << <<"I","I">>, <<"X">> >>, TRUE)>>,
         <<a, cand("statutory-body-1em", << <<"A">>, <<"1">> >>, TRUE)>>,
         <<a, cand("statutory-body-1em", << <<"1">>, <<"A">> >>, FALSE)>> }

\* a Format-A section without subsections: parse_element puts its
\* paragraph (1) into the 'paragraphs' list of the section dict itself
RootParagraphSection ==
    [id |-> SectionBaseChars, tag |-> "section", num |-> section_num,
     text |-> <<>>, refs |-> <<>>, subsections |-> <<>>,
     paragraphs |-> <<Leaf(SectionBaseChars \o <<"/","1">>, <<"(","1",")">>,
                          "paragraph", <<"p">>)>>]

DiffTrees ==
    {SectionDict(<<>>)}
    \cup {SectionDict(<<SubA(t, k)>>) : t \in SubTexts, k \in KidShapes}
    \cup {SectionDict(<<SubA(t, k), SubB>>) : t \in SubTexts, k \in KidShapes}
    \cup {SectionDict(_build_hierarchy_from_elements(els)) : els \in ParsedSections}
    \cup {RootParagraphSection}

DiffInit ==
    /\ version1 \in DiffTrees
    /\ version2 \in DiffTrees
    /\ diffs = <<>>
    /\ stats = [total |-> 0]
    /\ dpc = "start"
    /\ FoldIdle
    /\ LoaderIdle
    /\ ThreadsIdle
    /\ XhtmlIdle
    /\ HierIdle
    /\ ClassIdle

NoDiffFrame == UNCHANGED <<foldVars, equivVars, loaderVars, threadVars, xhtmlVars, hierVars, classVars>>

CompareVersions ==
    /\ dpc = "start"
    /\ diffs' = compare_versions(version1, version2)
    /\ dpc' = "compared"
    /\ UNCHANGED <<version1, version2, stats>>
    /\ NoDiffFrame

GetDiffStats ==
    /\ dpc = "compared"
    /\ stats' = get_diff_stats(diffs)
    /\ dpc' = "counted"
    /\ UNCHANGED <<version1, version2, diffs>>
    /\ NoDiffFrame

DiffNext == CompareVersions \/ GetDiffStats

SpecDiff == DiffInit /\ [][DiffNext]_vars

\* the provision dicts of a section tree, each with the id the flattening
\* gives it
RECURSIVE Located(_, _, _)
Located(nodes, parent_path, base) ==
    IF nodes = <<>> THEN {}
    ELSE LET node == Head(nodes)
             provision_id == ProvisionId(node, parent_path, base)
         IN {[id |-> provision_id, node |-> node]}
            \cup Located(Children(node), provision_id, base)
            \cup Located(Tail(nodes), parent_path, base)

NodeOf(data, id) ==
    (CHOOSE l \in Located(data.subsections, <<>>, data.id) : l.id = id).node

PopulatedBuckets(node) == {b \in Buckets : node[b] # <<>>}

\* the two nodes differ in which child buckets are populated or in the
\* number of children of some bucket
StructureDiffers(n1, n2) ==
    \/ PopulatedBuckets(n1) # PopulatedBuckets(n2)
    \/ \E b \in Buckets : Len(n1[b]) # Len(n2[b])

\* C10: for an id that is a key of both flattened trees and whose stripped
\* texts are equal, compare_versions reports 'modified' when the two nodes
\* differ in which child buckets are populated or in the number of children
\* of some bucket, and 'unchanged' otherwise.
C10_EqualTextModifiedIffStructureDiffers ==
    dpc # "start" =>
        \A k \in DOMAIN diffs :
            LET e == diffs[k]
            IN (/\ e.id \in DOMAIN build_provision_tree(version1)
                /\ e.id \in DOMAIN build_provision_tree(version2)
                /\ StripWs(e.old.text) = StripWs(e.new.text)) =>
                   e.type = IF StructureDiffers(NodeOf(version1, e.id), NodeOf(version2, e.id))
                            THEN "modified" ELSE "unchanged"

\* C11: compare_versions aligns nodes by id equality only: an id that is a
\* key only of the second flattened tree has exactly one entry, 'added' with
\* old absent; an id that is a key only of the first has exactly one entry,
\* 'deleted' with new absent; so a renumbered provision is a 'deleted' entry
\* at the old id and an 'added' entry at the new id, never 'modified'.
C11_AlignedByIdEqualityOnly ==
    dpc # "start" =>
        LET tree1 == build_provision_tree(version1)
            tree2 == build_provision_tree(version2)
        IN \A id \in (DOMAIN tree1) \cup (DOMAIN tree2) :
              LET es == {k \in DOMAIN diffs : diffs[k].id = id}
              IN /\ Cardinality(es) = 1
                 /\ \A k \in es :
                       /\ id \notin DOMAIN tree1 =>
                             (diffs[k].type = "added" /\ diffs[k].old = None
                                 /\ diffs[k].new = tree2[id])
                       /\ id \notin DOMAIN tree2 =>
                             (diffs[k].type = "deleted" /\ diffs[k].new = None
                                 /\ diffs[k].old = tree1[id])
                       /\ (id \in DOMAIN tree1 /\ id \in DOMAIN tree2) =>
                             diffs[k].type \in {"modified", "unchanged"}

\* paragraph (a)(1) of version 1 is (a)(2) in version 2 with the same text:
\* the diff has 'deleted' at /a/1 and 'added' at /a/2
C11_Witness ==
    /\ dpc = "compared"
    /\ \E j, k \in DOMAIN diffs :
          /\ diffs[j].type = "deleted" /\ diffs[j].id = Para1.id
          /\ diffs[k].type = "added" /\ diffs[k].id = Para1Renumbered.id
          /\ diffs[j].old.text = diffs[k].new.text

\* C12: for every tree T, compare_versions(T, T) has only 'unchanged'
\* entries: added = deleted = modified = 0 and unchanged = total.
C12_SelfDiffAllUnchanged ==
    (dpc = "counted" /\ version1 = version2) =>
        /\ \A k \in DOMAIN diffs : diffs[k].type = "unchanged"
        /\ stats.added = 0 /\ stats.deleted = 0 /\ stats.modified = 0
        /\ stats.unchanged = stats.total

\* a tree with a provision of empty text and children was compared to itself
C12_Witness ==
    /\ dpc = "counted"
    /\ version1 = version2
    /\ stats.total >= 2
    /\ \E k \in DOMAIN diffs : StripWs(diffs[k].old.text) = <<>>

\* C13: the entry of each id in compare_versions(T2, T1) is 'deleted' where
\* compare_versions(T1, T2) has 'added', 'added' where it has 'deleted', and
\* the same 'modified' or 'unchanged' otherwise; the modified and unchanged
\* counts are equal in both directions.
C13_ReversalSwapsAddedDeleted ==
    dpc # "start" =>
        LET rev == compare_versions(version2, version1)
            Reversed(type) == CASE type = "added" -> "deleted"
                                [] type = "deleted" -> "added"
                                [] OTHER -> type
        IN /\ Len(rev) = Len(diffs)
           /\ \A k \in DOMAIN diffs :
                 /\ rev[k].id = diffs[k].id
                 /\ rev[k].type = Reversed(diffs[k].type)
           /\ get_diff_stats(rev).modified = get_diff_stats(diffs).modified
           /\ get_diff_stats(rev).unchanged = get_diff_stats(diffs).unchanged

\* a diff with entries of all four types
C13_Witness ==
    /\ dpc = "compared"
    /\ \A t \in {"added", "deleted", "modified", "unchanged"} :
          \E k \in DOMAIN diffs : diffs[k].type = t

\* the (ancestor id, descendant id) pairs of the provisions of a list of
\* nodes, with the ids the flattening gives them
RECURSIVE Descents(_, _, _, _)
Descents(nodes, parent_path, base, above) ==
    IF nodes = <<>> THEN {}
    ELSE LET provision_id == ProvisionId(Head(nodes), parent_path, base)
         IN {<<a, provision_id>> : a \in above}
            \cup Descents(Children(Head(nodes)), provision_id, base, above \cup {provision_id})
            \cup Descents(Tail(nodes), parent_path, base, above)

\* C14: the entries compare_versions returns are in strictly ascending
\* lexicographic order of id and hold each id of the two flattened trees
\* exactly once, and the entry of a provision precedes the entries of all
\* its descendants.
C14_AscendingIdsParentsFirst ==
    dpc # "start" =>
        /\ \A k \in 1..(Len(diffs) - 1) : StrLess(diffs[k].id, diffs[k + 1].id)
        /\ {diffs[k].id : k \in DOMAIN diffs} =
              (DOMAIN build_provision_tree(version1)) \cup (DOMAIN build_provision_tree(version2))
        /\ \A v \in {version1, version2} :
              \A d \in Descents(v.subsections, <<>>, v.id, {}) :
                 \A j, k \in DOMAIN diffs :
                    (diffs[j].id = d[1] /\ diffs[k].id = d[2]) => j < k

\* C15: for the entries compare_versions produced, get_diff_stats returns
\* counts with added + deleted + modified + unchanged = total, and total is
\* the number of entries.
C15_StatsSumToTotal ==
    dpc = "counted" =>
        /\ stats.added + stats.deleted + stats.modified + stats.unchanged = stats.total
        /\ stats.total = Len(diffs)

\* statistics of a diff in which every type occurs
C15_Witness ==
    /\ dpc = "counted"
    /\ stats.added > 0 /\ stats.deleted > 0
    /\ stats.modified > 0 /\ stats.unchanged > 0

-----------------------------------------------------------------------------
(* Pass 2: the levels the classifier gives *)

\* single-token candidates of the shallowest class whose token is one
\* lowercase letter
RootLetterCandidates ==
    { Elem("statutory-body", << <<c>> >>, x, r) :
        c \in {"a", "i", "v", "x", "z"}, x \in Texts, r \in BOOLEAN }

\* C16: a single-token candidate of the shallowest indentation class whose
\* token is one lowercase letter (i, v, x included) becomes a level-5 node
\* appended to the root subsections with id section-base/token, whatever the
\* parent stack holds and whatever the previous indentation hint was.
C16_RootLetterBecomesSubsection ==
    pc = "fold" =>
        \A elem \in RootLetterCandidates :
            LET st == FoldElem(elem, arena, parent_stack, root_subsections, prev_css_level)
                n  == Len(arena) + 1
            IN /\ Len(st.arena) = n
               /\ st.arena[n].level = 5
               /\ st.arena[n].tag = "subsection"
               /\ st.roots = Append(root_subsections, n)
               /\ st.arena[n].id = section_base \o <<"/">> \o Strip(elem.nums[1])
               /\ \A m \in 1..(n - 1) : \A b \in Buckets : st.arena[m][b] = arena[m][b]

\* (i) at the shallowest class was folded right after a block that left a
\* clause or deeper node on the parent stack
C16_Witness ==
    /\ pc = "fold"
    /\ \E n \in lastnew :
          /\ lastnew = {n}
          /\ n > 1
          /\ arena[n].num = <<"(", "i", ")">>
          /\ arena[n].level = 5
          /\ arena[n - 1].level >= 8
          /\ root_subsections[Len(root_subsections)] = n
          /\ prev_css_level = 5

\* C17: every node the Format-B reconstructor creates from a purely-digit
\* token is a paragraph (level 6): single candidates, every position of a
\* normal combined candidate, repealed sequences.
C17_DigitTokenIsParagraph ==
    \A n \in DOMAIN arena :
        IsDigit(Strip(arena[n].num)) => arena[n].tag = "paragraph"

\* C18: in every tree Pass 2 returns the token of a subsection is one
\* lowercase letter, the token of a paragraph is all digits and the token of
\* a subparagraph is one uppercase letter.
C18_TokenAlphabetPerLevel ==
    pc = "done" =>
        \A n \in TreeNodes :
            LET tok == Strip(arena[n].num)
            IN /\ arena[n].tag = "subsection" =>
                     (Len(tok) = 1 /\ IsAlpha(tok) /\ IsLower(tok))
               /\ arena[n].tag = "paragraph" => IsDigit(tok)
               /\ arena[n].tag = "subparagraph" =>
                     (Len(tok) = 1 /\ IsAlpha(tok) /\ IsUpper(tok))

\* C19: Pass 2 never creates a node deeper than level 9, no subclause has a
\* populated child bucket, and a token of a combined candidate that follows
\* a level-9 token of the same candidate is itself a level-9 node.
C19_NothingBelowSubclause ==
    \A n \in DOMAIN arena :
        /\ arena[n].tag \in {LEVEL_TO_TAG[l] : l \in Levels}
        /\ arena[n].tag = "subclause" => \A b \in Buckets : arena[n][b] = <<>>
        /\ (/\ n > 1
            /\ arena[n - 1].tag = "subclause"
            /\ arena[n].id = arena[n - 1].id \o <<"/">> \o Strip(arena[n].num))
              => arena[n].tag = "subclause"

\* the combined candidate (A)(i)(I)(II) ran past level 9: (I) and (II) are
\* both subclauses, stored in one bucket
C19_Witness ==
    \E n \in DOMAIN arena :
        /\ n > 1
        /\ arena[n].tag = "subclause" /\ arena[n - 1].tag = "subclause"
        /\ arena[n].id = arena[n - 1].id \o <<"/">> \o Strip(arena[n].num)
        /\ \E m \in DOMAIN arena :
              /\ Len(arena[m].subclauses) = 2
              /\ arena[m].subclauses[1] = n - 1
              /\ arena[m].subclauses[2] = n

\* C20: the N > 1 nodes of a repealed combined candidate are created at one
\* level and attached as siblings under one parent, each with the
\* candidate's text.  (Only a repealed candidate gives every one of its
\* nodes a text.)
C20_RepealedTokensAreSiblings ==
    (/\ pc = "fold"
     /\ Cardinality(lastnew) > 1
     /\ \A n \in lastnew : arena[n].text # <<>>) =>
        LET Holders(n) == {m \in DOMAIN arena : \E b \in Buckets :
                              \E k \in DOMAIN arena[m][b] : arena[m][b][k] = n}
                          \cup (IF \E k \in DOMAIN root_subsections : root_subsections[k] = n
                                THEN {0} ELSE {})
        IN \A m, n \in lastnew :
              /\ arena[m].level = arena[n].level
              /\ arena[m].text = arena[n].text
              /\ Holders(m) = Holders(n)

-----------------------------------------------------------------------------
(* parse_xhtml_section after Pass 1: Pass 2, the result dict and the
   post-parse fixes of usc_rules *)

\* sub in s, for two Python strings
Contains(sub, s) ==
    \E i \in 0..(Len(s) - Len(sub)) : SubSeq(s, i + 1, i + Len(sub)) = sub

\* s.startswith(pre)
StartsWith(pre, s) == Len(s) >= Len(pre) /\ SubSeq(s, 1, Len(pre)) = pre

RepealedWord == <<"R","e","p","e","a","l","e","d">>
ChiefPrefix == <<"I","f"," ","a"," ","c","h","i","e","f"," ","l","a","w"," ","e","n","f","o","r","c","e","m","e","n","t"," ","o","f","f","i","c","e","r">>

\* SECTION_OVERRIDES: the one entry, for section 922
SECTION_OVERRIDES ==
    [sec \in { <<"9","2","2">> } |->
        [remove_provisions |->
            << [id_pattern    |-> <<"/","u","s","/","u","s","c","/","t","1","8","/","s","9","2","2","/","v">>,
                text_contains |-> RepealedWord,
                reason        |-> "Duplicate (v) from repealed provision marker"] >>,
         relocate_provisions |->
            << [wrong_id         |-> <<"/","u","s","/","u","s","c","/","t","1","8","/","s","9","2","2","/","C">>,
                text_starts_with |-> ChiefPrefix,
                reason           |-> "Uppercase (C) incorrectly parsed as root subsection"] >>]]

\* the test of lines 78-91 on one root subsection
should_remove(subsection, rule) ==
    IF "id_pattern" \in DOMAIN rule /\ subsection.id = rule.id_pattern
    THEN IF "text_contains" \in DOMAIN rule
         THEN Contains(rule.text_contains, subsection.text)
         ELSE IF "text_starts_with" \in DOMAIN rule
         THEN StartsWith(rule.text_starts_with, subsection.text)
         ELSE TRUE
    ELSE FALSE

\* a removal that goes by the id alone
RemoveMatchingIdOnly(parsed_section, rule) ==
    [parsed_section EXCEPT !.subsections =
        SelectSeq(@, LAMBDA sub : ~("id_pattern" \in DOMAIN rule /\ sub.id = rule.id_pattern))]

_remove_matching_provision(parsed_section, rule) ==
    IF "subsections" \notin DOMAIN parsed_section THEN parsed_section
    ELSE [parsed_section EXCEPT !.subsections =
             SelectSeq(@, LAMBDA sub : ~should_remove(sub, rule))]

\* the loop over a list of rules from its i-th entry on; relocate says the
\* rules are relocation rules, rewritten as removal rules (lines 60-64)
RECURSIVE ApplyRules(_, _, _, _)
ApplyRules(parsed_section, rules, i, relocate) ==
    IF i > Len(rules) THEN parsed_section
    ELSE LET rule == IF relocate
                     THEN [id_pattern       |-> rules[i].wrong_id,
                           text_starts_with |-> rules[i].text_starts_with,
                           reason           |-> rules[i].reason]
                     ELSE rules[i]
         IN ApplyRules(_remove_matching_provision(parsed_section, rule), rules, i + 1, relocate)

apply_post_parse_fixes(parsed_section, secnum) ==
    IF secnum \notin DOMAIN SECTION_OVERRIDES THEN parsed_section
    ELSE LET overrides == SECTION_OVERRIDES[secnum]
             removed   == ApplyRules(parsed_section, overrides.remove_provisions, 1, FALSE)
         IN ApplyRules(removed, overrides.relocate_provisions, 1, TRUE)

\* the blocks of a section: (v) and (x) at the shallowest class with an
\* ordinary text, (v) with a text that mentions a repeal, the repealed block
\* "[(v), (w) Repealed.", (C) with the text of the relocation rule, a
\* repealed block "[(C), (a) ..." with that text, and the paragraph (1) one
\* step in
XhtmlCandidates ==
    LET t == <<"t">>
        sb == "statutory-body"
    IN { Elem(sb, << <<"v">> >>, t, FALSE),
         Elem(sb, << <<"v">> >>, <<"t"," ">> \o RepealedWord, FALSE),
         Elem(sb, << <<"v">>, <<"w">> >>, RepealedWord \o <<".">>, TRUE),
         Elem(sb, << <<"x">> >>, t, FALSE),
         Elem(sb, << <<"C">> >>, ChiefPrefix \o <<" ","t">>, FALSE),
         Elem(sb, << <<"C">>, <<"a">> >>, ChiefPrefix \o <<" ","t">>, TRUE),
         Elem("statutory-body-1em", << <<"1">> >>, t, FALSE) }

\* the section numbers apply_post_parse_fixes is called with; the tree of
\* section 923 is given the ids of section 922: the table has no entry for
\* 923, and the function returns before it looks at the tree
FixSections == { <<"9","2","2">>, <<"9","2","3">> }

XhtmlInit ==
    /\ blocks \in UNION { [1..n -> XhtmlCandidates] : n \in 1..MaxBlocks }
    /\ fix_section \in FixSections
    /\ built = [id |-> <<>>]
    /\ fixed = [id |-> <<>>]
    /\ xpc = "start"
    /\ FoldIdle
    /\ LoaderIdle
    /\ ThreadsIdle
    /\ DiffIdle
    /\ HierIdle
    /\ ClassIdle

NoXhtmlFrame == UNCHANGED <<foldVars, equivVars, loaderVars, threadVars, diffVars,
                            hierVars, classVars>>

\* lines 560-575: Pass 2 and the result dict
BuildSection ==
    /\ xpc = "start"
    /\ built' = SectionDict(_build_hierarchy_from_elements(blocks))
    /\ xpc' = "built"
    /\ UNCHANGED <<blocks, fix_section, fixed>>
    /\ NoXhtmlFrame

\* lines 577-581: the post-parse fixes; built keeps the dict as it was
\* before them
ApplyPostParseFixes ==
    /\ xpc = "built"
    /\ fixed' = apply_post_parse_fixes(built, fix_section)
    /\ xpc' = "fixed"
    /\ UNCHANGED <<blocks, fix_section, built>>
    /\ NoXhtmlFrame

XhtmlNext == BuildSection \/ ApplyPostParseFixes

SpecXhtml == XhtmlInit /\ [][XhtmlNext]_vars

\* the provision dicts of a list of nodes and all below them, in document
\* order
RECURSIVE NodeList(_)
NodeList(nodes) ==
    IF nodes = <<>> THEN <<>>
    ELSE <<Head(nodes)>> \o NodeList(Children(Head(nodes))) \o NodeList(Tail(nodes))

\* C21: parsing section 922 from blocks that include "[(v), (w) Repealed."
\* followed by the level-5 block "(x) ..." returns, after the post-parse
\* fixes, a tree with exactly one node of id .../s922/v and exactly one of
\* id .../s922/w, both with the repealed text, and a root subsection (x)
\* of id .../s922/x that is nested under no other subsection.
C21_RepealedVWThenRootX ==
    (/\ xpc = "fixed"
     /\ fix_section = section_num
     /\ \E k \in 1..(Len(blocks) - 1) :
           /\ blocks[k].is_repealed
           /\ blocks[k].nums = << Paren(<<"v">>), Paren(<<"w">>) >>
           /\ blocks[k + 1].nums = << Paren(<<"x">>) >>) =>
        LET ns == NodeList(fixed.subsections)
            At(tok) == {j \in DOMAIN ns : ns[j].id = section_base \o <<"/">> \o tok}
        IN /\ Cardinality(At(<<"v">>)) = 1
           /\ Cardinality(At(<<"w">>)) = 1
           /\ \A j \in At(<<"v">>) \cup At(<<"w">>) : Contains(RepealedWord, ns[j].text)
           /\ Cardinality(At(<<"x">>)) = 1
           /\ \E k \in DOMAIN fixed.subsections :
                 /\ fixed.subsections[k].id = section_base \o <<"/">> \o <<"x">>
                 /\ fixed.subsections[k].tag = "subsection"

\* the normal combined candidates Pass 2 is run on
NormalCombined == { e \in Candidates : Len(e.nums) > 1 /\ ~e.is_repealed }

\* the chain property of the nodes first..last of arena ar, created from
\* candidate e when the previous hint was prev; strict asks every node to
\* be one level below the node before it, otherwise the level is clamped at
\* 9 and the child link is asked only where the level went down by one
ChainFrom(e, ar, first, last, prev, strict) ==
    /\ last - first + 1 = Len(e.nums)
    /\ ar[first].level =
          _get_level_from_number_pattern(Strip(e.nums[1]), e.css_level, EmptyStack, prev)
    /\ \A n \in first..(last - 1) :
          /\ ar[n].text = <<>>
          /\ IF strict
             THEN /\ ar[n + 1].level = ar[n].level + 1
                  /\ \E k \in DOMAIN ar[n][ChildKey(ar[n + 1].level)] :
                        ar[n][ChildKey(ar[n + 1].level)][k] = n + 1
             ELSE /\ ar[n + 1].level = (IF ar[n].level + 1 > 9 THEN 9 ELSE ar[n].level + 1)
                  /\ ar[n + 1].level = ar[n].level + 1 =>
                        \E k \in DOMAIN ar[n][ChildKey(ar[n + 1].level)] :
                           ar[n][ChildKey(ar[n + 1].level)][k] = n + 1
    /\ ar[last].text = e.text
    /\ \A n \in first..(last - 1) :
          ar[n + 1].id = ar[n].id \o <<"/">> \o Strip(e.nums[n + 1 - first + 1])

\* C22 as stated: a normal combined candidate with tokens t1..tN, folded
\* as the next candidate of the loop, yields a
\* chain of N nodes in which node k+1 is a child of node k exactly one
\* level deeper, node 1 has the classifier's level for t1 with an empty
\* parent stack, nodes 1..N-1 have empty text and node N has the whole text.
C22_CombinedChainEachOneLevelDeeper ==
    (pc = "fold" /\ nelems < MaxElems) =>
        \A e \in NormalCombined :
            LET st == FoldElem(e, arena, parent_stack, root_subsections, prev_css_level)
            IN ChainFrom(e, st.arena, Len(arena) + 1, Len(st.arena), prev_css_level, TRUE)

\* C22 amended, for the candidate the loop folds next: node k+1 is one
\* level deeper than node k, clamped at 9;
\* where it is one level deeper it is a child of node k; its id extends the
\* id of node k by its token; node 1 has the classifier's level for t1 with
\* an empty parent stack, nodes 1..N-1 have empty text and node N has the
\* whole text.
C22_CombinedChainClampedAtNine ==
    (pc = "fold" /\ nelems < MaxElems) =>
        \A e \in NormalCombined :
            LET st == FoldElem(e, arena, parent_stack, root_subsections, prev_css_level)
            IN ChainFrom(e, st.arena, Len(arena) + 1, Len(st.arena), prev_css_level, FALSE)

\* a normal combined candidate of four tokens has been processed and its
\* last two nodes are both subclauses
C22_Witness ==
    /\ pc = "fold"
    /\ Cardinality(lastnew) = 4
    /\ \E n \in lastnew :
          /\ n + 1 \in lastnew
          /\ arena[n].level = 9 /\ arena[n + 1].level = 9
          /\ arena[n].text = <<>> /\ arena[n + 1].text # <<>>

\* C23: no node carries the text of a block other than the nodes of the
\* block's own tokens, so that no node's text contains verbatim the
\* non-empty text of any of its descendants, also for repealed sequences
\* whose tokens land on different levels: of the nodes a combined candidate
\* creates, none lies below another one whose text contains its text.
C23_NoAncestorCarriesDescendantText ==
    pc = "fold" =>
        \A e \in { c \in Candidates : Len(c.nums) > 1 } :
            LET st  == FoldElem(e, arena, parent_stack, root_subsections, prev_css_level)
                new == (Len(arena) + 1)..Len(st.arena)
            IN \A m \in new : \A n \in ReachFrom(st.arena, m) \ {m} :
                  st.arena[n].text # <<>> =>
                     ~Contains(st.arena[n].text, st.arena[m].text)

-----------------------------------------------------------------------------
(* The hierarchical diff: get_provision_hierarchy and compare_hierarchical *)

\* the provision ids of the table: a subsection, two paragraphs, and a
\* subparagraph of the first paragraph
HierRoot == <<"/","a">>
HierIds == { HierRoot,
             HierRoot \o <<"/","1">>,
             HierRoot \o <<"/","2">>,
             HierRoot \o <<"/","1","/","A">> }
HierTexts == { <<"x">>, <<"y">> }
HierYears == {1, 2}

\* the rows of provision_embeddings for one year: provision_id -> text_content
HierTables == UNION { [S -> HierTexts] : S \in SUBSET HierIds }

\* '/'.join(provision_id.split('/')[:-1])
RECURSIVE ParentId(_)
ParentId(id) ==
    IF id = <<>> THEN <<>>
    ELSE IF id[Len(id)] = "/" THEN SubSeq(id, 1, Len(id) - 1)
    ELSE ParentId(SubSeq(id, 1, Len(id) - 1))

\* provision_id.split('/')[-1]: the provision_num column of a row
RECURSIVE LastSegment(_)
LastSegment(id) ==
    IF id = <<>> \/ id[Len(id)] = "/" THEN <<>>
    ELSE LastSegment(SubSeq(id, 1, Len(id) - 1)) \o <<id[Len(id)]>>

\* the dict of the row id with the rows of ids, in ascending order, whose
\* parent_id it is appended below it
RECURSIVE HierNode(_, _, _)
HierNode(table, ids, id) ==
    LET kids == Sorted({c \in ids : ParentId(c) = id})
    IN [provision_id  |-> id,
        provision_num |-> LastSegment(id),
        text_content  |-> table[id],
        children      |-> [k \in DOMAIN kids |-> HierNode(table, ids, kids[k])]]

\* get_provision_hierarchy: None without a row for provision_id, else the
\* row with the rows LIKE provision_id + '/%' linked below it
get_provision_hierarchy(table, provision_id) ==
    IF provision_id \notin DOMAIN table THEN None
    ELSE HierNode(table,
                  {c \in DOMAIN table : StartsWith(provision_id \o <<"/">>, c)},
                  provision_id)

\* {c["provision_id"]: c for c in children}: the last child of that id
ChildrenMap(children) ==
    [cid \in {children[k].provision_id : k \in DOMAIN children} |->
        children[CHOOSE k \in DOMAIN children :
                    /\ children[k].provision_id = cid
                    /\ \A j \in DOMAIN children :
                          children[j].provision_id = cid => j <= k]]

\* compare_node recursing only into the children both sides have
RECURSIVE CompareNodeCommonChildrenOnly(_, _)
CompareNodeCommonChildrenOnly(old_node, new_node) ==
    LET text_changed     == old_node.text_content # new_node.text_content
        old_children_map == ChildrenMap(old_node.children)
        new_children_map == ChildrenMap(new_node.children)
        all_child_ids    == Sorted(DOMAIN old_children_map \cap DOMAIN new_children_map)
    IN [provision_id  |-> old_node.provision_id,
        provision_num |-> old_node.provision_num,
        status        |-> IF text_changed THEN "modified" ELSE "unchanged",
        text_changed  |-> text_changed,
        old_text      |-> old_node.text_content,
        new_text      |-> new_node.text_content,
        children      |-> [k \in DOMAIN all_child_ids |->
                              CompareNodeCommonChildrenOnly(
                                  old_children_map[all_child_ids[k]],
                                  new_children_map[all_child_ids[k]])]]

\* compare_hierarchical.compare_node
RECURSIVE compare_node(_, _)
compare_node(old_node, new_node) ==
    LET text_changed     == old_node.text_content # new_node.text_content
        old_children_map == ChildrenMap(old_node.children)
        new_children_map == ChildrenMap(new_node.children)
        all_child_ids    == Sorted(DOMAIN old_children_map \cup DOMAIN new_children_map)
        ChildDiff(child_id) ==
            IF child_id \in DOMAIN old_children_map /\ child_id \in DOMAIN new_children_map
            THEN compare_node(old_children_map[child_id], new_children_map[child_id])
            ELSE IF child_id \in DOMAIN old_children_map
            THEN [provision_id  |-> child_id,
                  provision_num |-> old_children_map[child_id].provision_num,
                  status        |-> "removed",
                  old_text      |-> old_children_map[child_id].text_content,
                  children      |-> <<>>]
            ELSE [provision_id  |-> child_id,
                  provision_num |-> new_children_map[child_id].provision_num,
                  status        |-> "added",
                  new_text      |-> new_children_map[child_id].text_content,
                  children      |-> <<>>]
    IN [provision_id  |-> old_node.provision_id,
        provision_num |-> old_node.provision_num,
        status        |-> IF text_changed THEN "modified" ELSE "unchanged",
        text_changed  |-> text_changed,
        old_text      |-> old_node.text_content,
        new_text      |-> new_node.text_content,
        children      |-> [k \in DOMAIN all_child_ids |-> ChildDiff(all_child_ids[k])]]

\* compare_hierarchical without the generated summary text
compare_hierarchical(tables, provision_id, year_old, year_new) ==
    LET old_hierarchy == get_provision_hierarchy(tables[year_old], provision_id)
        new_hierarchy == get_provision_hierarchy(tables[year_new], provision_id)
    IN IF old_hierarchy = None
       THEN [error |-> year_old, provision_id |-> provision_id,
             year_old |-> year_old, year_new |-> year_new]
       ELSE IF new_hierarchy = None
       THEN [error |-> year_new, provision_id |-> provision_id,
             year_old |-> year_old, year_new |-> year_new]
       ELSE [provision_id |-> provision_id,
             year_old |-> year_old, year_new |-> year_new,
             hierarchy_diff |-> compare_node(old_hierarchy, new_hierarchy)]

HierInit ==
    /\ db \in [HierYears -> HierTables]
    /\ hierarchy_result = [provision_id |-> <<>>]
    /\ hpc = "start"
    /\ FoldIdle
    /\ LoaderIdle
    /\ ThreadsIdle
    /\ DiffIdle
    /\ XhtmlIdle
    /\ ClassIdle

NoHierFrame == UNCHANGED <<foldVars, equivVars, loaderVars, threadVars, diffVars,
                           xhtmlVars, classVars>>

CompareHierarchical ==
    /\ hpc = "start"
    /\ \E provision_id \in {HierRoot, HierRoot \o <<"/","1">>} :
       \E year_old \in HierYears : \E year_new \in HierYears :
          hierarchy_result' = compare_hierarchical(db, provision_id, year_old, year_new)
    /\ hpc' = "compared"
    /\ UNCHANGED db
    /\ NoHierFrame

HierNext == CompareHierarchical

SpecHier == HierInit /\ [][HierNext]_vars

\* every matched pair of nodes of two hierarchies with the entry res the
\* diff holds for it
RECURSIVE MatchedPairs(_, _, _)
MatchedPairs(old, new, res) ==
    {[old |-> old, new |-> new, res |-> res]}
    \cup UNION { UNION { UNION {
            IF /\ old.children[i].provision_id = new.children[j].provision_id
               /\ res.children[k].provision_id = old.children[i].provision_id
               /\ "text_changed" \in DOMAIN res.children[k]
            THEN MatchedPairs(old.children[i], new.children[j], res.children[k])
            ELSE {}
          : k \in DOMAIN res.children } : j \in DOMAIN new.children } : i \in DOMAIN old.children }

ChildIds(node) == {node.children[k].provision_id : k \in DOMAIN node.children}

\* C24: in the hierarchical diff, for every matched pair of nodes the
\* children list of the result holds exactly one entry per id in the union
\* of the two nodes' child ids: an id on both sides is compared recursively,
\* an id only on the old side is a 'removed' entry with no children, an id
\* only on the new side an 'added' entry with no children.
C24_ChildrenOneEntryPerIdOfUnion ==
    (hpc = "compared" /\ "hierarchy_diff" \in DOMAIN hierarchy_result) =>
        \A m \in MatchedPairs(
                    get_provision_hierarchy(db[hierarchy_result.year_old],
                                            hierarchy_result.provision_id),
                    get_provision_hierarchy(db[hierarchy_result.year_new],
                                            hierarchy_result.provision_id),
                    hierarchy_result.hierarchy_diff) :
            LET kids == m.res.children
            IN /\ {kids[k].provision_id : k \in DOMAIN kids} = ChildIds(m.old) \cup ChildIds(m.new)
               /\ \A i, j \in DOMAIN kids : kids[i].provision_id = kids[j].provision_id => i = j
               /\ \A k \in DOMAIN kids :
                     LET cid == kids[k].provision_id
                     IN IF cid \in ChildIds(m.old) /\ cid \in ChildIds(m.new)
                        THEN /\ kids[k].status \in {"modified", "unchanged"}
                             /\ \E i \in DOMAIN m.old.children : \E j \in DOMAIN m.new.children :
                                   /\ m.old.children[i].provision_id = cid
                                   /\ m.new.children[j].provision_id = cid
                                   /\ kids[k].old_text = m.old.children[i].text_content
                                   /\ kids[k].new_text = m.new.children[j].text_content
                        ELSE IF cid \in ChildIds(m.old)
                        THEN kids[k].status = "removed" /\ kids[k].children = <<>>
                        ELSE kids[k].status = "added" /\ kids[k].children = <<>>

\* a diff whose root has a removed child and a matched child, and the
\* matched child has an added child of its own
C24_Witness ==
    /\ hpc = "compared"
    /\ "hierarchy_diff" \in DOMAIN hierarchy_result
    /\ LET kids == hierarchy_result.hierarchy_diff.children
       IN /\ \E k \in DOMAIN kids : kids[k].status = "removed"
          /\ \E k \in DOMAIN kids :
                /\ kids[k].status \in {"modified", "unchanged"}
                /\ \E j \in DOMAIN kids[k].children : kids[k].children[j].status = "added"

-----------------------------------------------------------------------------
(* The level classifier on its own *)

\* tokens over [a-zA-Z0-9]+: digits, single letters in and outside the roman
\* alphabet, roman and non-roman words of both cases, mixed tokens
ClassifierTokens ==
    { <<"1">>, <<"1","2">>, <<"a">>, <<"i">>, <<"A">>, <<"I">>,
      <<"i","i">>, <<"x","i","v">>, <<"I","I">>, <<"a","b">>, <<"A","B">>,
      <<"i","I">>, <<"i","1">>, <<"1","a">> }

ClassifyInit ==
    /\ arg_num \in ClassifierTokens
    /\ arg_css \in Levels
    /\ arg_stack \in [Levels -> {0, 1}]
    /\ arg_prev \in {0} \cup Levels
    /\ level_out = 0
    /\ cpc = "start"
    /\ FoldIdle
    /\ LoaderIdle
    /\ ThreadsIdle
    /\ DiffIdle
    /\ XhtmlIdle
    /\ HierIdle

Classify ==
    /\ cpc = "start"
    /\ level_out' = _get_level_from_number_pattern(arg_num, arg_css, arg_stack, arg_prev)
    /\ cpc' = "done"
    /\ UNCHANGED <<arg_num, arg_css, arg_stack, arg_prev>>
    /\ UNCHANGED <<foldVars, equivVars, loaderVars, threadVars, diffVars,
                   xhtmlVars, hierVars>>

ClassifyNext == Classify

SpecClassify == ClassifyInit /\ [][ClassifyNext]_vars

\* C25: for every token, indentation hint, parent stack and previous
\* hint the classifier returns the level of the seven rules in their order:
\* digits -> 6; previous hint strictly greater than the current one -> the
\* current hint; single lowercase letter -> 8 if one of levels 7, 8, 9 is
\* populated, else 5; single uppercase letter -> 9 if level 8 or 9 is
\* populated, else 7; multi-character lowercase roman -> 8; multi-character
\* uppercase roman -> 9; otherwise the hint.
C25_ClassifierSevenRulesInOrder ==
    cpc = "done" =>
        LET t == arg_num
            Over(S) == \A k \in DOMAIN t : t[k] \in S
        IN level_out =
             CASE Over(DigitChars) -> 6
               [] ~Over(DigitChars) /\ arg_prev # 0 /\ arg_prev > arg_css -> arg_css
               [] ~Over(DigitChars) /\ ~(arg_prev # 0 /\ arg_prev > arg_css) ->
                    IF Len(t) = 1 /\ Over(LowerChars)
                    THEN (IF arg_stack[7] # 0 \/ arg_stack[8] # 0 \/ arg_stack[9] # 0
                          THEN 8 ELSE 5)
                    ELSE IF Len(t) = 1 /\ Over(UpperChars)
                    THEN (IF arg_stack[8] # 0 \/ arg_stack[9] # 0 THEN 9 ELSE 7)
                    ELSE IF Len(t) > 1 /\ Over({"i","v","x","l","c","d","m"}) THEN 8
                    ELSE IF Len(t) > 1 /\ Over({"I","V","X","L","C","D","M"}) THEN 9
                    ELSE arg_css

\* the classifier was called on the single letter (i) below a populated
\* clause level while the previous hint was deeper than the current one
C25_Witness ==
    /\ cpc = "done"
    /\ arg_num = <<"i">>
    /\ arg_stack[8] # 0
    /\ arg_prev = 9 /\ arg_css = 7
    /\ level_out = 7

\* C26: after Pass 2 has processed a single-token candidate classified at
\* level L, the parent stack holds that node at level L and every deeper
\* level is empty; after a combined candidate (normal or repealed) the
\* stack holds a node of that candidate at every level at which the
\* candidate created a node, and every level deeper than the deepest of
\* them is empty.
C26_StackHoldsCandidateLevels ==
    pc = "fold" =>
        \A e \in Candidates :
            LET st  == FoldElem(e, arena, parent_stack, root_subsections, prev_css_level)
                new == (Len(arena) + 1)..Len(st.arena)
            IN /\ \A n \in new : st.stack[st.arena[n].level] \in new
               /\ Len(e.nums) = 1 => \A n \in new : st.stack[st.arena[n].level] = n
               /\ \A l \in Levels :
                     (\A n \in new : st.arena[n].level < l) => st.stack[l] = 0

\* the tokens of SingleToks that have the shape of a level: a lowercase
\* letter for 5, a digit for 6, an uppercase letter for 7, a lowercase roman
\* numeral for 8, an uppercase roman numeral for 9
ShapeOfLevel(l) ==
    CASE l = 5 -> { <<<<"a">>>>, <<<<"i">>>> }
      [] l = 6 -> { <<<<"1">>>> }
      [] l = 7 -> { <<<<"A">>>>, <<<<"I">>>> }
      [] l = 8 -> { <<<<"i">>>>, <<<<"i","i">>>> }
      [] l = 9 -> { <<<<"I">>>>, <<<<"I","I">>>> }

\* candidate e2, folded right after the normal combined candidate e1, gets
\* the level of the last node of e1 and is stored in the same bucket of the
\* same parent
ContinuesAtLevel(e1, e2) ==
    LET s1   == FoldElem(e1, arena, parent_stack, root_subsections, prev_css_level)
        last == Len(s1.arena)
        L    == s1.arena[last].level
        s2   == FoldElem(e2, s1.arena, s1.stack, s1.roots, e1.css_level)
        new  == Len(s2.arena)
    IN /\ s2.arena[new].level = L
       /\ \E q \in DOMAIN s2.arena :
             /\ \E k \in DOMAIN s2.arena[q][ChildKey(L)] : s2.arena[q][ChildKey(L)][k] = last
             /\ \E k \in DOMAIN s2.arena[q][ChildKey(L)] : s2.arena[q][ChildKey(L)][k] = new

\* the single-token candidates of the hint of e1 whose token has the shape
\* of the level of the last node of e1
SameShapeFollowers(e1) ==
    LET s1 == FoldElem(e1, arena, parent_stack, root_subsections, prev_css_level)
        L  == s1.arena[Len(s1.arena)].level
    IN { c \in Candidates : /\ Len(c.nums) = 1
                            /\ c.css_class = e1.css_class
                            /\ <<Strip(c.nums[1])>> \in ShapeOfLevel(L) }

\* C27 as stated: after a normal combined candidate at indentation hint h
\* whose last node is at level L, a following single-token candidate with
\* the same hint whose token has the shape of level L is attached at level
\* L as a sibling of that last node under the same parent, also when h is
\* the shallowest indentation class.
C27_SingleAfterCombinedIsSibling ==
    (pc = "fold" /\ nelems < MaxElems) =>
        \A e1 \in NormalCombined : \A e2 \in SameShapeFollowers(e1) :
            ContinuesAtLevel(e1, e2)

\* C27 amended: the same, unless h is the shallowest indentation class and
\* the token is a single letter.
C27_SingleAfterCombinedIsSiblingUnlessRootLetter ==
    (pc = "fold" /\ nelems < MaxElems) =>
        \A e1 \in NormalCombined : \A e2 \in SameShapeFollowers(e1) :
            (~e2.is_root_css \/ Len(Strip(e2.nums[1])) > 1 \/ IsDigit(Strip(e2.nums[1]))) =>
                ContinuesAtLevel(e1, e2)

\* Pass 2 has folded a combined candidate ending in a clause and then the
\* single letter (i) of a deeper indentation class, which became a clause
\* next to it
C27_Witness ==
    /\ pc = "fold"
    /\ nelems = 2
    /\ Len(arena) >= 3
    /\ lastnew = {Len(arena)}
    /\ LET n == Len(arena)
       IN /\ arena[n].num = Paren(<<"i">>)
          /\ arena[n].level = 8
          /\ arena[n - 1].level = 8
          /\ arena[n - 2].text = <<>>
          /\ \E k \in DOMAIN arena[n - 2].clauses : arena[n - 2].clauses[k] = n - 1
          /\ \E k \in DOMAIN arena[n - 2].clauses : arena[n - 2].clauses[k] = n

\* the provision nodes stored in the child buckets of a section dict
RootChildren(data) ==
    (IF "subsections" \in DOMAIN data THEN data.subsections ELSE <<>>) \o
    (IF "paragraphs" \in DOMAIN data THEN data.paragraphs ELSE <<>>) \o
    (IF "subparagraphs" \in DOMAIN data THEN data.subparagraphs ELSE <<>>) \o
    (IF "clauses" \in DOMAIN data THEN data.clauses ELSE <<>>) \o
    (IF "subclauses" \in DOMAIN data THEN data.subclauses ELSE <<>>)

\* C28: build_provision_tree returns a map with exactly one entry for
\* every provision node stored in any child bucket anywhere in the tree
\* (also in the paragraphs or deeper buckets of the section root, and for
\* nodes lacking an id or a num): the number of entries equals the number
\* of provision nodes.
C28_OneEntryPerProvisionNode ==
    dpc # "idle" =>
        \A data \in {version1, version2} :
            Cardinality(DOMAIN build_provision_tree(data)) = Len(NodeList(RootChildren(data)))

\* a node matches a rule of the table entry of section sec: its id is the
\* rule's pattern and its text satisfies the rule's condition
MatchesRule(node, sec) ==
    \/ \E k \in DOMAIN SECTION_OVERRIDES[sec].remove_provisions :
          LET rule == SECTION_OVERRIDES[sec].remove_provisions[k]
          IN node.id = rule.id_pattern /\ Contains(rule.text_contains, node.text)
    \/ \E k \in DOMAIN SECTION_OVERRIDES[sec].relocate_provisions :
          LET rule == SECTION_OVERRIDES[sec].relocate_provisions[k]
          IN node.id = rule.wrong_id /\ StartsWith(rule.text_starts_with, node.text)

\* the root subsections of the returned tree are those of the built tree
\* that match no rule, unchanged and in their order, and the other fields
\* of the section are unchanged; without a table entry nothing changes
RootSubsectionsFiltered ==
    IF fix_section \in DOMAIN SECTION_OVERRIDES
    THEN /\ DOMAIN fixed = DOMAIN built
         /\ \A f \in (DOMAIN built) \ {"subsections"} : fixed[f] = built[f]
         /\ fixed.subsections =
               SelectSeq(built.subsections, LAMBDA sub : ~MatchesRule(sub, fix_section))
    ELSE fixed = built

C30_EveryNodeReachableFromRoots ==
    pc = "fold" =>
        \A n \in DOMAIN arena : n \in Reachable(arena, root_subsections)

====
